---- MODULE Spec2Model ----
(***************************************************************************)
(* Model of the Azure Key Vault key management provider of ratify          *)
(* (pkg/keymanagementprovider/azurekeyvault/provider.go): the version      *)
(* history trimming, the per-object fetch of certificates and keys, and    *)
(* the deletes the fetch applies to the shared certificate and key store.  *)
(***************************************************************************)
EXTENDS Integers, Sequences, FiniteSets, TLC

(***************************************************************************)
(* Bounds                                                                  *)
(***************************************************************************)
\* longest version history listed for one object in SpecTrim
MaxLen == 3
\* largest versionHistoryLimit configured in SpecTrim
MaxLimit == 3


VersionName(i) == "v" \o ToString(i)

\* the version identifiers the vault hands out in SpecTrim
TrimVersions == {VersionName(i) : i \in 1..MaxLen}

Min(a, b) == IF a < b THEN a ELSE b
Max(a, b) == IF a > b THEN a ELSE b

\* the sequences over the set S without repetition, of every length up to n
InjSeqs(S, n) ==
    {s \in UNION {[1..k -> S] : k \in 0..n} :
        \A i, j \in DOMAIN s : i /= j => s[i] /= s[j]}

(***************************************************************************)
(* Version history: types.KeyVaultValueVersion{Version, Created, Enabled}  *)
(***************************************************************************)
\* what the pager of one object can list: distinct versions, distinct
\* creation times, in any order
Listings(versions, n) ==
    UNION {{[i \in 1..Len(vs) |-> [Version |-> vs[i], Created |-> cs[i], Enabled |-> es[i]]] :
              cs \in {c \in InjSeqs(1..Len(vs), Len(vs)) : Len(c) = Len(vs)},
              es \in [1..Len(vs) -> BOOLEAN]} :
           vs \in InjSeqs(versions, n)}

\* inserts the entry v into the history s, sorted ascending by Created
RECURSIVE InsertByCreated(_, _)
InsertByCreated(s, v) ==
    IF s = <<>> THEN <<v>>
    ELSE IF v.Created < Head(s).Created THEN <<v>> \o s
    ELSE <<Head(s)>> \o InsertByCreated(Tail(s), v)

\* KeyVaultValueVersionHistory.Sort: ascending by creation time, oldest first
RECURSIVE Sort(_)
Sort(versionHistory) ==
    IF versionHistory = <<>> THEN <<>>
    ELSE InsertByCreated(Sort(Tail(versionHistory)), Head(versionHistory))

\* the Go slice expression s[lo:hi]; it panics when the bounds are out of range
GoSlice(s, lo, hi) ==
    IF 0 <= lo /\ lo <= hi /\ hi <= Len(s)
    THEN [panic |-> FALSE, value |-> SubSeq(s, lo + 1, hi)]
    ELSE [panic |-> TRUE, value |-> <<>>]

\* a search that lands on the newest entry when the version is not listed
IndexOfVersionOrNewest(versionHistory, version, i) ==
    IF \E k \in (i + 1)..Len(versionHistory) : versionHistory[k].Version = version
    THEN (CHOOSE k \in (i + 1)..Len(versionHistory) :
             /\ versionHistory[k].Version = version
             /\ \A l \in (i + 1)..(k - 1) : versionHistory[l].Version /= version) - 1
    ELSE Len(versionHistory) - 1

\* the index (from 0) of the first entry of the history with that version, -1 if none
RECURSIVE IndexOfVersion(_, _, _)
IndexOfVersion(versionHistory, version, i) ==
    IF i >= Len(versionHistory) THEN -1
    ELSE IF versionHistory[i + 1].Version = version THEN i
    ELSE IndexOfVersion(versionHistory, version, i + 1)

\* a start index that is never moved up to the limit
trimStartZero(versionIndex, limit) == 0

trimStart(versionIndex, limit) ==
    IF versionIndex - limit < 0 THEN 0 ELSE versionIndex - limit

\* a trim that keeps the oldest entries instead of the most recent ones
trimSuffixOldest(versionHistory, limit) ==
    GoSlice(versionHistory, 0, Min(limit, Len(versionHistory)))

trimSuffix(versionHistory, limit) ==
    LET lim == IF limit > Len(versionHistory) THEN Len(versionHistory) ELSE limit
    IN  GoSlice(versionHistory, Len(versionHistory) - lim, Len(versionHistory))

\* a pinned trim that leaves the pinned version out of the window
trimPinnedExclusive(versionHistory, limit, version) ==
    LET versionIndex == IndexOfVersion(versionHistory, version, 0)
    IN  GoSlice(versionHistory, trimStart(versionIndex, limit), Max(versionIndex, 0))

trimPinned(versionHistory, limit, version) ==
    LET versionIndex == IndexOfVersion(versionHistory, version, 0)
    IN  GoSlice(versionHistory, trimStart(versionIndex, limit), versionIndex + 1)

trimVersionHistory(versionHistory, limit, version) ==
    IF version = "" THEN trimSuffix(versionHistory, limit)
    ELSE trimPinned(versionHistory, limit, version)

(***************************************************************************)
(* Vault client: errors and bundles (secretKVClient, certificateKVClient)  *)
(***************************************************************************)
\* the error value nil
NoError ==
    [Failed |-> FALSE, ResponseError |-> FALSE, StatusCode |-> 0,
     BodyReadable |-> FALSE, BodyJSON |-> FALSE, Code |-> "", InnerCode |-> ""]

\* an azcore.ResponseError with that status, body and error codes
ResponseErr(status, readable, json, code, inner) ==
    [Failed |-> TRUE, ResponseError |-> TRUE, StatusCode |-> status,
     BodyReadable |-> readable, BodyJSON |-> json, Code |-> code, InnerCode |-> inner]

\* an error that is no azcore.ResponseError (a cancelled context, a network failure)
PlainError ==
    [Failed |-> TRUE, ResponseError |-> FALSE, StatusCode |-> 0,
     BodyReadable |-> FALSE, BodyJSON |-> FALSE, Code |-> "", InnerCode |-> ""]

SecretDisabledError == ResponseErr(403, TRUE, TRUE, "Forbidden", "SecretDisabled")

\* the errors a vault request can fail with
VaultErrors ==
    {PlainError,
     SecretDisabledError,
     ResponseErr(403, TRUE, TRUE, "Forbidden", "AccessDenied"),
     ResponseErr(403, TRUE, TRUE, "Unauthorized", "SecretDisabled"),
     ResponseErr(403, TRUE, FALSE, "", ""),
     ResponseErr(403, FALSE, FALSE, "", ""),
     ResponseErr(404, TRUE, TRUE, "SecretNotFound", "")}

\* a secret-disabled test that looks at the HTTP status alone
isSecretDisabledErrorStatusOnly(err) ==
    err.ResponseError /\ err.StatusCode = 403

isSecretDisabledError(err) ==
    IF err.ResponseError
    THEN IF err.StatusCode /= 403 THEN FALSE
         ELSE IF ~err.BodyReadable THEN FALSE
         ELSE err.BodyJSON /\ err.Code = "Forbidden" /\ err.InnerCode = "SecretDisabled"
    ELSE FALSE

\* an object identifier as its path segments: <<collection, name, version>>
ObjectID(collection, name, version) == <<collection, name, version>>
NilID == <<>>

\* azsecrets.ID.Version, azcertificates.ID.Version: the version segment, "" if none
IDVersion(id) == IF Len(id) >= 3 THEN id[3] ELSE ""

\* the last path segment of the identifier
getObjectVersion(id) == id[Len(id)]

PKCS12ContentType == "application/x-pkcs12"
PEMContentType == "application/x-pem-file"

\* one PEM block; Certs is what DecodeCertificates makes of a CERTIFICATE block:
\* the number of certificates it decodes, 0 when it fails
PEMBlock(type, certs) == [Type |-> type, Certs |-> certs]
CertBlock == PEMBlock("CERTIFICATE", 1)
ChainBlock == PEMBlock("CERTIFICATE", 2)
BadCertBlock == PEMBlock("CERTIFICATE", 0)
KeyBlock == PEMBlock("PRIVATE KEY", 0)
OtherBlock == PEMBlock("PUBLIC KEY", 0)

\* the value of a secret: for PEM content its blocks and whether undecodable
\* bytes follow the last block; for PKCS12 content whether the base64 and the
\* PKCS12 decoding succeed and the blocks pkcs12.ToPEM yields
SecretValue(present, b64, p12, blocks, trailing) ==
    [Present |-> present, Base64OK |-> b64, P12OK |-> p12,
     Blocks |-> blocks, Trailing |-> trailing]
NilValue == SecretValue(FALSE, FALSE, FALSE, <<>>, FALSE)
PEMValue(blocks, trailing) == SecretValue(TRUE, FALSE, FALSE, blocks, trailing)

\* azsecrets.SecretBundle; Attributes is "nil", "noEnabled" (Enabled is nil),
\* "true" or "false"; ContentType is "nil" for the nil pointer
SecretBundle(id, attributes, contentType, value) ==
    [ID |-> id, Attributes |-> attributes, ContentType |-> contentType, Value |-> value]

\* azcertificates.CertificateBundle
CertificateBundle(id, attributes) == [ID |-> id, Attributes |-> attributes]

isValidSecretBundle(secretBundle) ==
    /\ secretBundle.Attributes /= "nil"
    /\ secretBundle.Attributes /= "noEnabled"
    /\ secretBundle.ContentType /= "nil"
    /\ secretBundle.Value.Present
    /\ secretBundle.ID /= NilID

isValidCertificateBundle(certBundle) ==
    /\ certBundle.Attributes /= "nil"
    /\ certBundle.Attributes /= "noEnabled"
    /\ certBundle.ID /= NilID

\* *bundle.Attributes.Enabled
EnabledOf(bundle) == bundle.Attributes = "true"

\* strconv.FormatBool
FormatBool(b) == IF b THEN "true" ELSE "false"

\* keymanagementprovider.KMPMapKey
KMPMapKey(name, version, enabled) ==
    [Name |-> name, Version |-> version, Enabled |-> enabled]

\* lastRefreshed is a wall-clock timestamp and is left out
getStatusProperty(name, version, enabled) ==
    [name |-> name, version |-> version, enabled |-> FormatBool(enabled)]

\* a certificate, named by the block of the stream and its place in the block
Certificate(block, index) == [Block |-> block, Index |-> index]

\* keymanagementprovider.DecodeCertificates on the i-th block
DecodeCertificates(blocks, i) ==
    [j \in 1..blocks[i].Certs |-> Certificate(i, j)]

ParseResult(failed, certs, status) ==
    [Failed |-> failed, Certs |-> certs, Status |-> status]

\* a block loop that takes every block for a certificate block
RECURSIVE parseBlocksNoSwitch(_, _, _, _, _, _, _, _)
parseBlocksNoSwitch(blocks, trailing, i, certName, version, enabled, results, certsStatus) ==
    LET decoded == DecodeCertificates(blocks, i)
        results2 == results \o decoded
        status2 == certsStatus \o [j \in 1..Len(decoded) |->
                                      getStatusProperty(certName, version, enabled)]
    IN  IF blocks[i].Certs = 0 THEN ParseResult(TRUE, <<>>, <<>>)
        ELSE IF i = Len(blocks)
        THEN IF trailing THEN ParseResult(TRUE, <<>>, <<>>)
             ELSE ParseResult(FALSE, results2, status2)
        ELSE parseBlocksNoSwitch(blocks, trailing, i + 1, certName, version, enabled,
                                 results2, status2)

\* the block loop of getCertsFromSecretBundle from block i on
RECURSIVE parseBlocks(_, _, _, _, _, _, _, _)
parseBlocks(blocks, trailing, i, certName, version, enabled, results, certsStatus) ==
    LET block == blocks[i]
        isCert == block.Type = "CERTIFICATE"
        decoded == DecodeCertificates(blocks, i)
        results2 == IF isCert THEN results \o decoded ELSE results
        status2 ==
            IF isCert
            THEN certsStatus \o [j \in 1..Len(decoded) |->
                                    getStatusProperty(certName, version, enabled)]
            ELSE certsStatus
    IN  IF isCert /\ block.Certs = 0 THEN ParseResult(TRUE, <<>>, <<>>)
        ELSE IF i = Len(blocks)
        THEN IF trailing THEN ParseResult(TRUE, <<>>, <<>>)
             ELSE ParseResult(FALSE, results2, status2)
        ELSE parseBlocks(blocks, trailing, i + 1, certName, version, enabled,
                         results2, status2)

\* a parser that reads a bundle of any content type as a PEM stream
getCertsFromSecretBundleAnyType(secretBundle, certName, enabled) ==
    LET version == getObjectVersion(secretBundle.ID)
        value == secretBundle.Value
        isP12 == secretBundle.ContentType = PKCS12ContentType
        trailing == IF isP12 THEN FALSE ELSE value.Trailing
    IN  IF isP12 /\ ~value.Base64OK THEN ParseResult(TRUE, <<>>, <<>>)
        ELSE IF isP12 /\ ~value.P12OK THEN ParseResult(TRUE, <<>>, <<>>)
        ELSE IF value.Blocks = <<>> THEN ParseResult(FALSE, <<>>, <<>>)
        ELSE parseBlocks(value.Blocks, trailing, 1, certName, version, enabled,
                         <<>>, <<>>)

getCertsFromSecretBundle(secretBundle, certName, enabled) ==
    LET version == getObjectVersion(secretBundle.ID)
        value == secretBundle.Value
        isP12 == secretBundle.ContentType = PKCS12ContentType
        \* the PKCS12 blocks are encoded afresh: nothing trails them
        trailing == IF isP12 THEN FALSE ELSE value.Trailing
    IN  IF secretBundle.ContentType /= PKCS12ContentType
           /\ secretBundle.ContentType /= PEMContentType
        THEN ParseResult(TRUE, <<>>, <<>>)
        ELSE IF isP12 /\ ~value.Base64OK THEN ParseResult(TRUE, <<>>, <<>>)
        ELSE IF isP12 /\ ~value.P12OK THEN ParseResult(TRUE, <<>>, <<>>)
        ELSE IF value.Blocks = <<>> THEN ParseResult(FALSE, <<>>, <<>>)
        ELSE parseBlocks(value.Blocks, trailing, 1, certName, version, enabled,
                         <<>>, <<>>)

(***************************************************************************)
(* The shared store (keymanagementprovider package): entries keyed by the  *)
(* material kind, the provider identity and the KMPMapKey                  *)
(***************************************************************************)
StoreEntry(kind, resource, mapKey) ==
    [Kind |-> kind, Resource |-> resource, Key |-> mapKey]

\* targeted delete-by-key: removes the entry stored under exactly that key
DeleteFromMap(store, kind, resource, mapKey) ==
    store \ {StoreEntry(kind, resource, mapKey)}

DeleteCertificateFromMap(store, resource, mapKey) ==
    DeleteFromMap(store, "certificates", resource, mapKey)

DeleteKeyFromMap(store, resource, mapKey) ==
    DeleteFromMap(store, "keys", resource, mapKey)

(***************************************************************************)
(* One fetch call: the locals of GetCertificates / GetKeys (the map and    *)
(* the status list), the error or panic that ended it, the shared store,   *)
(* and the vault requests and store-deletes the call has made              *)
(***************************************************************************)
Call(map, status, err, panic, store, requests, deletes) ==
    [map |-> map, status |-> status, err |-> err, panic |-> panic,
     store |-> store, requests |-> requests, deletes |-> deletes]

\* fmt.Errorf("...: %w", err): the stage that failed and the error it wraps
WrapError(stage, cause) == [Failed |-> TRUE, Stage |-> stage, Cause |-> cause]
NoFailure == [Failed |-> FALSE, Stage |-> "", Cause |-> NoError]

Request(obj, op, name, version) ==
    [Obj |-> obj, Op |-> op, Name |-> name, Version |-> version]

Delete(obj, kind, resource, mapKey) ==
    [Obj |-> obj, Kind |-> kind, Resource |-> resource, Key |-> mapKey]

\* m[k] = v on a Go map held as a set of key/value pairs
MapPut(m, k, v) == {e \in m : e.Key /= k} \cup {[Key |-> k, Value |-> v]}
MapKeys(m) == {e.Key : e \in m}

WithRequest(st, req) == [st EXCEPT !.requests = Append(@, req)]
WithError(st, stage, cause) == [st EXCEPT !.err = WrapError(stage, cause)]
WithPanic(st) == [st EXCEPT !.panic = TRUE]

\* the response of the vault to one request
Response(err, bundle) == [err |-> err, bundle |-> bundle]

\* a handleDisabledSecret that records the disabled status entry only when
\* the store held an entry under the key
handleDisabledSecretIfStored(s, obj, keyVaultCert, st, certResponse) ==
    LET st1 == WithRequest(st, Request(obj, "GetCertificate", keyVaultCert.Name,
                                       keyVaultCert.Version))
        bundle == certResponse.bundle
        version == IDVersion(bundle.ID)
        isEnabled == EnabledOf(bundle)
        mapKey == KMPMapKey(keyVaultCert.Name, version, isEnabled)
        removed == DeleteCertificateFromMap(st1.store, s.resource, mapKey)
    IN  IF certResponse.err.Failed THEN WithError(st1, "get certificate", certResponse.err)
        ELSE IF ~isValidCertificateBundle(bundle) THEN st1
        ELSE [st1 EXCEPT
                !.status = IF removed = st1.store THEN @
                           ELSE Append(@, getStatusProperty(keyVaultCert.Name, version,
                                                            isEnabled)),
                !.store = removed,
                !.deletes = Append(@, Delete(obj, "certificates", s.resource, mapKey))]

(***************************************************************************)
(* Certificates, versionHistoryLimit = 0                                   *)
(***************************************************************************)
handleDisabledSecret(s, obj, keyVaultCert, st, certResponse) ==
    LET st1 == WithRequest(st, Request(obj, "GetCertificate", keyVaultCert.Name,
                                       keyVaultCert.Version))
        bundle == certResponse.bundle
        version == IDVersion(bundle.ID)
        isEnabled == EnabledOf(bundle)
        mapKey == KMPMapKey(keyVaultCert.Name, version, isEnabled)
    IN  IF certResponse.err.Failed THEN WithError(st1, "get certificate", certResponse.err)
        ELSE IF ~isValidCertificateBundle(bundle) THEN st1
        ELSE [st1 EXCEPT
                !.status = Append(@, getStatusProperty(keyVaultCert.Name, version, isEnabled)),
                !.store = DeleteCertificateFromMap(@, s.resource, mapKey),
                !.deletes = Append(@, Delete(obj, "certificates", s.resource, mapKey))]

\* an insert that keys and reports by the flag of the fetched bundle
insertCertificatesByBundle(obj, name, version, enabled, secretBundle, st) ==
    LET parsed == getCertsFromSecretBundle(secretBundle, name, EnabledOf(secretBundle))
        certMapKey == KMPMapKey(name, version, EnabledOf(secretBundle))
    IN  IF parsed.Failed THEN WithError(st, "certificates from secret bundle", NoError)
        ELSE [st EXCEPT !.status = @ \o parsed.Status,
                        !.map = MapPut(@, certMapKey, parsed.Certs)]

\* the tail of processCertificateVersion(s): parse the bundle and store the
\* chain under the key (name, version, enabled)
insertCertificates(obj, name, version, enabled, secretBundle, st) ==
    LET parsed == getCertsFromSecretBundle(secretBundle, name, enabled)
        certMapKey == KMPMapKey(name, version, enabled)
    IN  IF parsed.Failed THEN WithError(st, "certificates from secret bundle", NoError)
        ELSE [st EXCEPT !.status = @ \o parsed.Status,
                        !.map = MapPut(@, certMapKey, parsed.Certs)]

\* a processCertificateVersion that asks for the secret a second time when
\* the first GetSecret fails
processCertificateVersionRetry(s, obj, keyVaultCert, st, script) ==
    LET secretResponse == script.secret
        st1 == WithRequest(st, Request(obj, "GetSecret", keyVaultCert.Name,
                                       keyVaultCert.Version))
        retried == WithRequest(st1, Request(obj, "GetSecret", keyVaultCert.Name,
                                            keyVaultCert.Version))
        secretBundle == secretResponse.bundle
    IN  IF secretResponse.err.Failed
        THEN IF ~isSecretDisabledError(secretResponse.err)
             THEN WithError(retried, "get secret", secretResponse.err)
             ELSE handleDisabledSecret(s, obj, keyVaultCert, st1, script.cert)
        ELSE IF ~isValidSecretBundle(secretBundle) THEN st1
        ELSE insertCertificates(obj, keyVaultCert.Name, IDVersion(secretBundle.ID),
                                EnabledOf(secretBundle), secretBundle, st1)

processCertificateVersion(s, obj, keyVaultCert, st, script) ==
    LET secretResponse == script.secret
        st1 == WithRequest(st, Request(obj, "GetSecret", keyVaultCert.Name,
                                       keyVaultCert.Version))
        secretBundle == secretResponse.bundle
    IN  IF secretResponse.err.Failed
        THEN IF ~isSecretDisabledError(secretResponse.err)
             THEN WithError(st1, "get secret", secretResponse.err)
             ELSE handleDisabledSecret(s, obj, keyVaultCert, st1, script.cert)
        ELSE IF ~isValidSecretBundle(secretBundle) THEN st1
        ELSE insertCertificates(obj, keyVaultCert.Name, IDVersion(secretBundle.ID),
                                EnabledOf(secretBundle), secretBundle, st1)

(***************************************************************************)
(* Certificates, versionHistoryLimit /= 0                                  *)
(***************************************************************************)
\* one page of a version listing: the error of NextPage, or its items
Page(err, items) == [err |-> err, Value |-> items]

\* an item of a page; Valid is isValidCertificateItem / isValidKeyItem
Item(valid, version, created, enabled) ==
    [Valid |-> valid, Version |-> version, Created |-> created, Enabled |-> enabled]

VersionOfItem(item) ==
    [Version |-> item.Version, Created |-> item.Created, Enabled |-> item.Enabled]

\* the valid items of a page, as version history entries
RECURSIVE validVersions(_)
validVersions(items) ==
    IF items = <<>> THEN <<>>
    ELSE IF Head(items).Valid
         THEN <<VersionOfItem(Head(items))>> \o validVersions(Tail(items))
         ELSE validVersions(Tail(items))

HistoryResult(err, versionHistory, fetched) ==
    [err |-> err, versionHistory |-> versionHistory, fetched |-> fetched]

\* a pager loop that goes on to the next page after a failed one
RECURSIVE fetchPagesPastFailure(_, _, _)
fetchPagesPastFailure(pages, i, versionHistory) ==
    IF i > Len(pages) THEN HistoryResult(NoError, Sort(versionHistory), i - 1)
    ELSE IF pages[i].err.Failed THEN fetchPagesPastFailure(pages, i + 1, versionHistory)
    ELSE fetchPagesPastFailure(pages, i + 1,
                               versionHistory \o validVersions(pages[i].Value))

\* the pager loop of fetch(Certificate|Key)VersionHistory from page i on;
\* fetched counts the pages requested
RECURSIVE fetchPages(_, _, _)
fetchPages(pages, i, versionHistory) ==
    IF i > Len(pages) THEN HistoryResult(NoError, Sort(versionHistory), i - 1)
    ELSE IF pages[i].err.Failed THEN HistoryResult(pages[i].err, <<>>, i)
    ELSE fetchPages(pages, i + 1, versionHistory \o validVersions(pages[i].Value))

\* a fetch that hands out the history newest first
fetchVersionHistoryNewestFirst(pages) ==
    LET r == fetchPages(pages, 1, <<>>)
        h == r.versionHistory
    IN  [r EXCEPT !.versionHistory = [k \in 1..Len(h) |-> h[Len(h) + 1 - k]]]

fetchVersionHistory(pages) ==
    fetchPages(pages, 1, <<>>)

\* the requests of the pages fetched for the object
PageRequests(obj, op, name, fetched) ==
    [i \in 1..fetched |-> Request(obj, op, name, "")]

\* a loop that records a disabled version and leaves it in the store
RECURSIVE certificateVersionsLoopKeepDisabled(_, _, _, _, _, _, _)
certificateVersionsLoopKeepDisabled(s, obj, keyVaultCert, versionHistory, i, st, script) ==
    IF i > Len(versionHistory) THEN st
    ELSE
      LET certVersion == versionHistory[i]
          mapKey == KMPMapKey(keyVaultCert.Name, certVersion.Version, FALSE)
          disabled ==
              [st EXCEPT
                 !.status = Append(@, getStatusProperty(keyVaultCert.Name,
                                                        certVersion.Version, FALSE))]
          secretResponse == script.secrets[certVersion.Version]
          st1 == WithRequest(st, Request(obj, "GetSecret", keyVaultCert.Name,
                                         certVersion.Version))
          secretBundle == secretResponse.bundle
      IN  IF ~certVersion.Enabled
          THEN certificateVersionsLoopKeepDisabled(s, obj, keyVaultCert, versionHistory, i + 1,
                                       disabled, script)
          ELSE IF secretResponse.err.Failed
          THEN WithError(st1, "get secret", secretResponse.err)
          ELSE IF ~isValidSecretBundle(secretBundle)
          THEN certificateVersionsLoopKeepDisabled(s, obj, keyVaultCert, versionHistory, i + 1,
                                       st1, script)
          ELSE LET st2 == insertCertificates(obj, keyVaultCert.Name, certVersion.Version,
                                             certVersion.Enabled, secretBundle, st1)
               IN  IF st2.err.Failed THEN st2
                   ELSE certificateVersionsLoopKeepDisabled(s, obj, keyVaultCert, versionHistory,
                                                i + 1, st2, script)

\* the loop of processCertificateVersions over the trimmed history, from entry i on
RECURSIVE certificateVersionsLoop(_, _, _, _, _, _, _)
certificateVersionsLoop(s, obj, keyVaultCert, versionHistory, i, st, script) ==
    IF i > Len(versionHistory) THEN st
    ELSE
      LET certVersion == versionHistory[i]
          mapKey == KMPMapKey(keyVaultCert.Name, certVersion.Version, FALSE)
          disabled ==
              [st EXCEPT
                 !.status = Append(@, getStatusProperty(keyVaultCert.Name,
                                                        certVersion.Version, FALSE)),
                 !.store = DeleteCertificateFromMap(@, s.resource, mapKey),
                 !.deletes = Append(@, Delete(obj, "certificates", s.resource, mapKey))]
          secretResponse == script.secrets[certVersion.Version]
          st1 == WithRequest(st, Request(obj, "GetSecret", keyVaultCert.Name,
                                         certVersion.Version))
          secretBundle == secretResponse.bundle
      IN  IF ~certVersion.Enabled
          THEN certificateVersionsLoop(s, obj, keyVaultCert, versionHistory, i + 1,
                                       disabled, script)
          ELSE IF secretResponse.err.Failed
          THEN WithError(st1, "get secret", secretResponse.err)
          ELSE IF ~isValidSecretBundle(secretBundle)
          THEN certificateVersionsLoop(s, obj, keyVaultCert, versionHistory, i + 1,
                                       st1, script)
          ELSE LET st2 == insertCertificates(obj, keyVaultCert.Name, certVersion.Version,
                                             certVersion.Enabled, secretBundle, st1)
               IN  IF st2.err.Failed THEN st2
                   ELSE certificateVersionsLoop(s, obj, keyVaultCert, versionHistory,
                                                i + 1, st2, script)

\* processCertificateVersions returning an error when no version is left
processCertificateVersionsFailOnEmpty(s, obj, keyVaultCert, st, script) ==
    LET history == fetchVersionHistory(script.pages)
        st1 == [st EXCEPT !.requests = @ \o PageRequests(
                   obj, "ListCertificateVersions", keyVaultCert.Name, history.fetched)]
        trimmed == trimVersionHistory(history.versionHistory,
                                      keyVaultCert.VersionHistoryLimit,
                                      keyVaultCert.Version)
    IN  IF history.err.Failed THEN WithError(st1, "version history", history.err)
        ELSE IF trimmed.panic THEN WithPanic(st1)
        ELSE IF Len(trimmed.value) = 0 THEN WithError(st1, "version history", NoError)
        ELSE certificateVersionsLoop(s, obj, keyVaultCert, trimmed.value, 1, st1, script)

processCertificateVersions(s, obj, keyVaultCert, st, script) ==
    LET history == fetchVersionHistory(script.pages)
        st1 == [st EXCEPT !.requests = @ \o PageRequests(
                   obj, "ListCertificateVersions", keyVaultCert.Name, history.fetched)]
        trimmed == trimVersionHistory(history.versionHistory,
                                      keyVaultCert.VersionHistoryLimit,
                                      keyVaultCert.Version)
    IN  IF history.err.Failed THEN WithError(st1, "version history", history.err)
        ELSE IF trimmed.panic THEN WithPanic(st1)
        ELSE IF Len(trimmed.value) = 0 THEN st1
        ELSE certificateVersionsLoop(s, obj, keyVaultCert, trimmed.value, 1, st1, script)

processCertificate(s, obj, keyVaultCert, st, script) ==
    IF keyVaultCert.VersionHistoryLimit = 0
    THEN processCertificateVersion(s, obj, keyVaultCert, st, script)
    ELSE processCertificateVersions(s, obj, keyVaultCert, st, script)

\* what a fetch call returns: nil map and nil status together with an error
Returned(nilResult, map, status, err) ==
    [nilResult |-> nilResult, map |-> map, status |-> status, err |-> err]

\* getStatusMap: the status list under the key of the material kind
getStatusMap(statusMap, contentType) == [kind |-> contentType, entries |-> statusMap]

\* a loop that goes on to the next object after an error
RECURSIVE certificatesLoopNoStop(_, _, _, _)
certificatesLoopNoStop(s, i, st, scripts) ==
    IF i > Len(s.certificates) \/ st.panic THEN st
    ELSE certificatesLoopNoStop(s, i + 1,
             processCertificate(s, i, s.certificates[i], st, scripts[i]), scripts)

\* the loop of GetCertificates over s.certificates from object i on
RECURSIVE certificatesLoop(_, _, _, _)
certificatesLoop(s, i, st, scripts) ==
    IF i > Len(s.certificates) \/ st.err.Failed \/ st.panic THEN st
    ELSE certificatesLoop(s, i + 1,
             processCertificate(s, i, s.certificates[i], st, scripts[i]), scripts)

\* a return that hands out the partial map and status along with the error
returnPartial(st, contentType) ==
    Returned(FALSE, st.map, getStatusMap(st.status, contentType), st.err)

\* the return statements of GetCertificates / GetKeys
returnResult(st, contentType) ==
    IF st.err.Failed THEN Returned(TRUE, {}, getStatusMap(<<>>, ""), st.err)
    ELSE Returned(FALSE, st.map, getStatusMap(st.status, contentType), NoFailure)

\* GetCertificates, given the store and the vault's responses: the call's
\* final locals, store and logs
GetCertificates(s, store, scripts) ==
    certificatesLoop(s, 1, Call({}, <<>>, NoFailure, FALSE, store, <<>>, <<>>), scripts)

(***************************************************************************)
(* Keys (keyKVClient)                                                      *)
(***************************************************************************)
\* azkeys.JSONWebKey; Kty is "nil" for the nil pointer; Decodable is whether
\* jose.JSONWebKey.UnmarshalJSON accepts the key's parameters
JSONWebKey(kid, kty, decodable) == [KID |-> kid, Kty |-> kty, Decodable |-> decodable]

\* azkeys.KeyBundle; HasKey is whether the Key pointer is set
KeyBundle(attributes, hasKey, key) ==
    [Attributes |-> attributes, HasKey |-> hasKey, Key |-> key]

NilKey == JSONWebKey(NilID, "nil", FALSE)

isValidKeyBundle(keyBundle) ==
    /\ keyBundle.Attributes /= "nil"
    /\ keyBundle.Attributes /= "noEnabled"

KeyResult(failed, key) == [Failed |-> failed, Key |-> key]
NoKey == [Kty |-> ""]

\* the HSM key types are turned into their software equivalents
normalizedKty(kty) ==
    IF kty = "EC-HSM" THEN "EC"
    ELSE IF kty = "RSA-HSM" THEN "RSA"
    ELSE kty

\* the key types jose.JSONWebKey.UnmarshalJSON knows
JoseKeyTypes == {"EC", "RSA", "OKP", "oct"}

getKeyFromKeyBundle(keyBundle) ==
    LET webKey == keyBundle.Key
        kty == normalizedKty(webKey.Kty)
    IN  IF ~keyBundle.HasKey THEN KeyResult(TRUE, NoKey)
        ELSE IF webKey.Kty = "nil" THEN KeyResult(TRUE, NoKey)
        ELSE IF ~(kty \in JoseKeyTypes /\ webKey.Decodable) THEN KeyResult(TRUE, NoKey)
        ELSE KeyResult(FALSE, [Kty |-> kty])

\* the tail of processKeyVersion(s): decode the key, store it under
\* (name, version, enabled) and record its status
insertKey(name, version, enabled, keyBundle, st) ==
    LET decoded == getKeyFromKeyBundle(keyBundle)
    IN  IF decoded.Failed THEN WithError(st, "key from key bundle", NoError)
        ELSE [st EXCEPT
                !.map = MapPut(@, KMPMapKey(name, version, enabled), decoded.Key),
                !.status = Append(@, getStatusProperty(name, version, enabled))]

\* processKeyVersion deleting under one fixed provider identity
processKeyVersionOneIdentity(s, obj, keyVaultKey, st, script) ==
    LET keyResponse == script.key
        st1 == WithRequest(st, Request(obj, "GetKey", keyVaultKey.Name,
                                       keyVaultKey.Version))
        keyBundle == keyResponse.bundle
        isEnabled == EnabledOf(keyBundle)
        version == getObjectVersion(keyBundle.Key.KID)
        mapKey == KMPMapKey(keyVaultKey.Name, version, isEnabled)
    IN  IF keyResponse.err.Failed THEN WithError(st1, "get key", keyResponse.err)
        ELSE IF ~isValidKeyBundle(keyBundle) THEN st1
        \* *keyBundle.Key.KID dereferences a nil pointer
        ELSE IF ~keyBundle.HasKey \/ keyBundle.Key.KID = NilID THEN WithPanic(st1)
        ELSE IF ~isEnabled
        THEN [st1 EXCEPT
                !.status = Append(@, getStatusProperty(keyVaultKey.Name, version, isEnabled)),
                !.store = DeleteKeyFromMap(@, "r1", mapKey),
                !.deletes = Append(@, Delete(obj, "keys", "r1", mapKey))]
        ELSE insertKey(keyVaultKey.Name, version, isEnabled, keyBundle, st1)

processKeyVersion(s, obj, keyVaultKey, st, script) ==
    LET keyResponse == script.key
        st1 == WithRequest(st, Request(obj, "GetKey", keyVaultKey.Name,
                                       keyVaultKey.Version))
        keyBundle == keyResponse.bundle
        isEnabled == EnabledOf(keyBundle)
        version == getObjectVersion(keyBundle.Key.KID)
        mapKey == KMPMapKey(keyVaultKey.Name, version, isEnabled)
    IN  IF keyResponse.err.Failed THEN WithError(st1, "get key", keyResponse.err)
        ELSE IF ~isValidKeyBundle(keyBundle) THEN st1
        \* *keyBundle.Key.KID dereferences a nil pointer
        ELSE IF ~keyBundle.HasKey \/ keyBundle.Key.KID = NilID THEN WithPanic(st1)
        ELSE IF ~isEnabled
        THEN [st1 EXCEPT
                !.status = Append(@, getStatusProperty(keyVaultKey.Name, version, isEnabled)),
                !.store = DeleteKeyFromMap(@, s.resource, mapKey),
                !.deletes = Append(@, Delete(obj, "keys", s.resource, mapKey))]
        ELSE insertKey(keyVaultKey.Name, version, isEnabled, keyBundle, st1)

\* the loop of processKeyVersions over the trimmed history, from entry i on
RECURSIVE keyVersionsLoop(_, _, _, _, _, _, _)
keyVersionsLoop(s, obj, keyVaultKey, versionHistory, i, st, script) ==
    IF i > Len(versionHistory) THEN st
    ELSE
      LET keyVersion == versionHistory[i]
          mapKey == KMPMapKey(keyVaultKey.Name, keyVersion.Version, FALSE)
          disabled ==
              [st EXCEPT
                 !.status = Append(@, getStatusProperty(keyVaultKey.Name,
                                                        keyVersion.Version, FALSE)),
                 !.store = DeleteKeyFromMap(@, s.resource, mapKey),
                 !.deletes = Append(@, Delete(obj, "keys", s.resource, mapKey))]
          keyResponse == script.keys[keyVersion.Version]
          st1 == WithRequest(st, Request(obj, "GetKey", keyVaultKey.Name,
                                         keyVersion.Version))
          keyBundle == keyResponse.bundle
      IN  IF ~keyVersion.Enabled
          THEN keyVersionsLoop(s, obj, keyVaultKey, versionHistory, i + 1, disabled, script)
          ELSE IF keyResponse.err.Failed THEN WithError(st1, "get key", keyResponse.err)
          ELSE IF ~isValidKeyBundle(keyBundle)
          THEN keyVersionsLoop(s, obj, keyVaultKey, versionHistory, i + 1, st1, script)
          ELSE LET st2 == insertKey(keyVaultKey.Name, keyVersion.Version,
                                    keyVersion.Enabled, keyBundle, st1)
               IN  IF st2.err.Failed THEN st2
                   ELSE keyVersionsLoop(s, obj, keyVaultKey, versionHistory, i + 1,
                                        st2, script)

processKeyVersions(s, obj, keyVaultKey, st, script) ==
    LET history == fetchVersionHistory(script.pages)
        st1 == [st EXCEPT !.requests = @ \o PageRequests(
                   obj, "ListKeyVersions", keyVaultKey.Name, history.fetched)]
        trimmed == trimVersionHistory(history.versionHistory,
                                      keyVaultKey.VersionHistoryLimit,
                                      keyVaultKey.Version)
    IN  IF history.err.Failed THEN WithError(st1, "version history", history.err)
        ELSE IF trimmed.panic THEN WithPanic(st1)
        ELSE IF Len(trimmed.value) = 0 THEN st1
        ELSE keyVersionsLoop(s, obj, keyVaultKey, trimmed.value, 1, st1, script)

processKey(s, obj, keyVaultKey, st, script) ==
    IF keyVaultKey.VersionHistoryLimit = 0
    THEN processKeyVersion(s, obj, keyVaultKey, st, script)
    ELSE processKeyVersions(s, obj, keyVaultKey, st, script)

\* the loop of GetKeys over s.keys from object i on
RECURSIVE keysLoop(_, _, _, _)
keysLoop(s, i, st, scripts) ==
    IF i > Len(s.keys) \/ st.err.Failed \/ st.panic THEN st
    ELSE keysLoop(s, i + 1, processKey(s, i, s.keys[i], st, scripts[i]), scripts)

GetKeys(s, store, scripts) ==
    keysLoop(s, 1, Call({}, <<>>, NoFailure, FALSE, store, <<>>, <<>>), scripts)

(***************************************************************************)
(* Inputs: the provider's configuration and the vault's responses          *)
(***************************************************************************)
Names == {"a", "b"}
Resources == {"r1", "r2"}
FetchVersions == {"v1", "v2"}
\* versionHistoryLimit values of the configured objects
FetchLimits == {0, 1, 2}

\* types.KeyVaultValue
KeyVaultValue(name, version, limit) ==
    [Name |-> name, Version |-> version, VersionHistoryLimit |-> limit]

KeyVaultValues(names) ==
    {KeyVaultValue(n, v, l) : n \in names, v \in {""} \cup FetchVersions, l \in FetchLimits}

\* the version the vault answers with: the one asked for, any when none is
AnswerVersions(version) == IF version = "" THEN FetchVersions ELSE {version}

\* content type and value of the secrets the vault holds
SecretContents ==
    {<<PEMContentType, PEMValue(<<CertBlock>>, FALSE)>>,
     <<PEMContentType, PEMValue(<<KeyBlock, CertBlock, ChainBlock>>, FALSE)>>,
     <<PEMContentType, PEMValue(<<KeyBlock, OtherBlock>>, FALSE)>>,
     <<PEMContentType, PEMValue(<<>>, TRUE)>>,
     <<PEMContentType, PEMValue(<<CertBlock>>, TRUE)>>,
     <<PEMContentType, PEMValue(<<BadCertBlock>>, FALSE)>>,
     <<PKCS12ContentType, SecretValue(TRUE, TRUE, TRUE, <<KeyBlock, CertBlock>>, FALSE)>>,
     <<PKCS12ContentType, SecretValue(TRUE, FALSE, FALSE, <<>>, FALSE)>>,
     <<PKCS12ContentType, SecretValue(TRUE, TRUE, FALSE, <<>>, FALSE)>>,
     <<"text/plain", PEMValue(<<CertBlock>>, FALSE)>>}

\* the contents met in the version-history path: one certificate, no
\* certificate at all, and a certificate that does not decode
HistoryContents ==
    {<<PEMContentType, PEMValue(<<CertBlock>>, FALSE)>>,
     <<PEMContentType, PEMValue(<<KeyBlock>>, FALSE)>>,
     <<PEMContentType, PEMValue(<<BadCertBlock>>, FALSE)>>}

\* the errors met in the version-history path
HistoryErrors == {PlainError, SecretDisabledError}

EmptySecretBundle == SecretBundle(NilID, "nil", "nil", NilValue)

\* bundles that lack a mandatory field
InvalidSecretBundles(name, version) ==
    LET id == ObjectID("secrets", name, version)
        ok == PEMValue(<<CertBlock>>, FALSE)
    IN  {SecretBundle(NilID, "true", PEMContentType, ok),
         SecretBundle(id, "nil", PEMContentType, ok),
         SecretBundle(id, "noEnabled", PEMContentType, ok),
         SecretBundle(id, "true", "nil", ok),
         SecretBundle(id, "true", PEMContentType, NilValue)}

ValidSecretBundles(name, versions, contents) ==
    {SecretBundle(ObjectID("secrets", name, v), a, c[1], c[2]) :
        v \in versions, a \in {"true", "false"}, c \in contents}

\* the answers to GetSecret(name, version)
SecretResponses(name, version, errors, contents) ==
    {Response(e, EmptySecretBundle) : e \in errors}
    \cup {Response(NoError, b) : b \in InvalidSecretBundles(name, "v1")}
    \cup {Response(NoError, b) :
            b \in ValidSecretBundles(name, AnswerVersions(version), contents)}

EmptyCertificateBundle == CertificateBundle(NilID, "nil")

\* the answers to GetCertificate(name, version)
CertificateResponses(name, version, errors) ==
    {Response(e, EmptyCertificateBundle) : e \in errors}
    \cup {Response(NoError, b) :
            b \in {CertificateBundle(NilID, "true"),
                   CertificateBundle(ObjectID("certificates", name, "v1"), "nil"),
                   CertificateBundle(ObjectID("certificates", name, "v1"), "noEnabled")}}
    \cup {Response(NoError, CertificateBundle(ObjectID("certificates", name, v), a)) :
            v \in AnswerVersions(version), a \in {"true", "false"}}

EmptyKeyBundle == KeyBundle("nil", FALSE, NilKey)

\* the key types of the keys the vault holds, "nil" for a key without type
KeyTypes == {"nil", "RSA", "EC-HSM", "oct-HSM"}

\* the answers to GetKey(name, version)
KeyResponses(name, version, errors, ktys) ==
    {Response(e, EmptyKeyBundle) : e \in errors}
    \cup {Response(NoError, b) :
            b \in {EmptyKeyBundle,
                   KeyBundle("noEnabled", TRUE,
                             JSONWebKey(ObjectID("keys", name, "v1"), "RSA", TRUE))}}
    \cup {Response(NoError, KeyBundle(a, FALSE, NilKey)) : a \in {"true", "false"}}
    \cup {Response(NoError, KeyBundle(a, TRUE, JSONWebKey(NilID, "RSA", TRUE))) :
            a \in {"true", "false"}}
    \cup {Response(NoError, KeyBundle(a, TRUE,
                                      JSONWebKey(ObjectID("keys", name, v), kty, d))) :
            v \in AnswerVersions(version), a \in {"true", "false"},
            kty \in ktys, d \in BOOLEAN}

\* the ways the pager hands out a listing: in one page, in two pages, with an
\* item that fails isValid...Item, and with a page whose fetch fails
Pagings(listing, errors) ==
    LET items == [i \in DOMAIN listing |->
                     Item(TRUE, listing[i].Version, listing[i].Created, listing[i].Enabled)]
        n == Len(items)
    IN  {<<Page(NoError, items)>>}
        \cup {<<Page(NoError, SubSeq(items, 1, 1)), Page(NoError, SubSeq(items, 2, n))>> :
                k \in {1} \cap 1..(n - 1)}
        \cup {<<Page(NoError, <<Item(FALSE, "v1", 1, TRUE)>> \o items)>>}
        \cup {<<Page(e, <<>>)>> : e \in errors}
        \cup {<<Page(NoError, items), Page(e, <<>>), Page(NoError, items)>> : e \in errors}

\* the responses the vault gives while one object is processed: to GetSecret
\* and GetCertificate (or GetKey) in the limit-0 path; the pages of the
\* listing and the answer to each version's fetch in the version-history path
Script(secret, cert, key, pages, secrets, keys) ==
    [secret |-> secret, cert |-> cert, key |-> key,
     pages |-> pages, secrets |-> secrets, keys |-> keys]

NoSecret == Response(NoError, EmptySecretBundle)
NoCertificate == Response(NoError, EmptyCertificateBundle)
NoKeyResponse == Response(NoError, EmptyKeyBundle)
NoAnswers == [v \in {} |-> NoSecret]

\* the enabled versions of the history a listing trims to: those fetched
FetchedVersions(pages, o) ==
    LET history == fetchVersionHistory(pages)
        trimmed == trimVersionHistory(history.versionHistory, o.VersionHistoryLimit,
                                      o.Version)
    IN  IF history.err.Failed \/ trimmed.panic THEN {}
        ELSE {trimmed.value[i].Version :
                i \in {j \in DOMAIN trimmed.value : trimmed.value[j].Enabled}}

\* the listings of an object's versions and the ways the pager hands them out
PageScripts ==
    UNION {Pagings(l, {PlainError}) : l \in Listings(FetchVersions, Cardinality(FetchVersions))}

\* the answers to the fetch of each of the versions, R[v] the possible answers
\* to the fetch of version v
RECURSIVE Answers(_)
Answers(R) ==
    IF DOMAIN R = {} THEN {NoAnswers}
    ELSE LET v == CHOOSE w \in DOMAIN R : TRUE
             rest == Answers([w \in DOMAIN R \ {v} |-> R[w]])
         IN  {(v :> r) @@ f : f \in rest, r \in R[v]}

\* the listings met by object o: none in the limit-0 path
ScriptPages(o) == IF o.VersionHistoryLimit = 0 THEN {<<>>} ELSE PageScripts

\* every script for the certificate object o with those pages: all errors and
\* contents in the limit-0 path, HistoryErrors and HistoryContents in the
\* version-history path
CertificateScripts(o, pages) ==
    IF o.VersionHistoryLimit = 0
    THEN UNION {{Script(r, c, NoKeyResponse, <<>>, NoAnswers, NoAnswers) :
                   c \in IF r.err.Failed /\ isSecretDisabledError(r.err)
                         THEN CertificateResponses(o.Name, o.Version, VaultErrors)
                         ELSE {NoCertificate}} :
                r \in SecretResponses(o.Name, o.Version, VaultErrors, SecretContents)}
    ELSE {Script(NoSecret, NoCertificate, NoKeyResponse, pages, answers, NoAnswers) :
            answers \in Answers([v \in FetchedVersions(pages, o) |->
                SecretResponses(o.Name, v, HistoryErrors, HistoryContents)])}

\* every script for the key object o with those pages
KeyScripts(o, pages) ==
    IF o.VersionHistoryLimit = 0
    THEN {Script(NoSecret, NoCertificate, r, <<>>, NoAnswers, NoAnswers) :
            r \in KeyResponses(o.Name, o.Version, VaultErrors, KeyTypes)}
    ELSE {Script(NoSecret, NoCertificate, NoKeyResponse, pages, NoAnswers, answers) :
            answers \in Answers([v \in FetchedVersions(pages, o) |->
                KeyResponses(o.Name, v, {PlainError}, {"nil", "EC-HSM"})])}

\* the objects and responses of the calls with several configured objects
SeveralObjects == {KeyVaultValue(n, "", l) : n \in Names, l \in {0, 1}}

SeveralPages ==
    {<<Page(PlainError, <<>>)>>,
     <<Page(NoError, <<Item(TRUE, "v1", 1, FALSE)>>)>>,
     <<Page(NoError, <<Item(TRUE, "v1", 1, TRUE)>>)>>}

SeveralCertificateScripts(o) ==
    LET ok == Response(NoError, SecretBundle(ObjectID("secrets", o.Name, "v1"), "true",
                                             PEMContentType, PEMValue(<<CertBlock>>, FALSE)))
        failed == Response(PlainError, EmptySecretBundle)
        disabled == Response(SecretDisabledError, EmptySecretBundle)
        metadata == Response(NoError, CertificateBundle(
                        ObjectID("certificates", o.Name, "v1"), "false"))
    IN  IF o.VersionHistoryLimit = 0
        THEN {Script(ok, NoCertificate, NoKeyResponse, <<>>, NoAnswers, NoAnswers),
              Script(failed, NoCertificate, NoKeyResponse, <<>>, NoAnswers, NoAnswers),
              Script(disabled, metadata, NoKeyResponse, <<>>, NoAnswers, NoAnswers)}
        ELSE UNION {{Script(NoSecret, NoCertificate, NoKeyResponse, pages, answers,
                            NoAnswers) :
                       answers \in Answers([v \in FetchedVersions(pages, o) |->
                                               {ok, failed}])} :
                    pages \in SeveralPages}

SeveralKeyScripts(o) ==
    LET key == JSONWebKey(ObjectID("keys", o.Name, "v1"), "RSA", TRUE)
        ok == Response(NoError, KeyBundle("true", TRUE, key))
        failed == Response(PlainError, EmptyKeyBundle)
        disabled == Response(NoError, KeyBundle("false", TRUE, key))
    IN  IF o.VersionHistoryLimit = 0
        THEN {Script(NoSecret, NoCertificate, r, <<>>, NoAnswers, NoAnswers) :
                r \in {ok, failed, disabled}}
        ELSE UNION {{Script(NoSecret, NoCertificate, NoKeyResponse, pages, NoAnswers,
                            answers) :
                       answers \in Answers([v \in FetchedVersions(pages, o) |->
                                               {ok, failed}])} :
                    pages \in SeveralPages}

\* the most objects one provider is configured with
MaxObjects == 2

\* the one object of the calls that meet every response
OneObject == KeyVaultValues({"a"})

\* the sequences of 2..MaxObjects objects, each with a script
SeveralCertificates ==
    UNION {[1..n -> UNION {{<<o, sc>> : sc \in SeveralCertificateScripts(o)} :
                             o \in SeveralObjects}] : n \in 2..MaxObjects}

SeveralKeys ==
    UNION {[1..n -> UNION {{<<o, sc>> : sc \in SeveralKeyScripts(o)} :
                             o \in SeveralObjects}] : n \in 2..MaxObjects}

\* listings of the versions of an object: none, only an item that is not
\* valid, v1 alone, v1 then v2
NoVersions == <<Page(NoError, <<>>)>>
NoValidVersion == <<Page(NoError, <<Item(FALSE, "v1", 1, TRUE)>>)>>
OnlyFirstVersion == <<Page(NoError, <<Item(TRUE, "v1", 1, TRUE)>>)>>
BothVersions == <<Page(NoError, <<Item(TRUE, "v2", 2, TRUE), Item(TRUE, "v1", 1, TRUE)>>)>>

\* a certificate object named n and the responses it meets, where the vault
\* hands out a bundle that lacks a mandatory field or the trimmed history
\* is empty
SoftCertificateCases(n) ==
    LET good(v) == Response(NoError, SecretBundle(ObjectID("secrets", n, v), "true",
                                   PEMContentType, PEMValue(<<CertBlock>>, FALSE)))
        history(pages, answers) ==
            Script(NoSecret, NoCertificate, NoKeyResponse, pages, answers, NoAnswers)
    IN  {<<KeyVaultValue(n, "", 0),
           Script(Response(NoError, b), NoCertificate, NoKeyResponse, <<>>, NoAnswers,
                  NoAnswers)>> : b \in InvalidSecretBundles(n, "v1")}
        \cup {<<KeyVaultValue(n, "", 0),
                Script(Response(SecretDisabledError, EmptySecretBundle),
                       Response(NoError, EmptyCertificateBundle), NoKeyResponse, <<>>,
                       NoAnswers, NoAnswers)>>}
        \cup {<<KeyVaultValue(n, "", 2),
                history(BothVersions, ("v1" :> Response(NoError, b)) @@ ("v2" :> good("v2")))>> :
                b \in InvalidSecretBundles(n, "v1")}
        \cup {<<KeyVaultValue(n, "", 1), history(NoVersions, NoAnswers)>>,
              <<KeyVaultValue(n, "", 1), history(NoValidVersion, NoAnswers)>>,
              <<KeyVaultValue(n, "v2", 1), history(OnlyFirstVersion, "v1" :> good("v1"))>>,
              <<KeyVaultValue(n, "v2", 2), history(NoVersions, NoAnswers)>>}

\* the same for a key object named n
SoftKeyCases(n) ==
    LET key(v) == JSONWebKey(ObjectID("keys", n, v), "RSA", TRUE)
        good(v) == Response(NoError, KeyBundle("true", TRUE, key(v)))
        bad == {Response(NoError, KeyBundle(a, h, IF h THEN key("v1") ELSE NilKey)) :
                   a \in {"nil", "noEnabled"}, h \in BOOLEAN}
        history(pages, answers) ==
            Script(NoSecret, NoCertificate, NoKeyResponse, pages, NoAnswers, answers)
    IN  {<<KeyVaultValue(n, "", 0),
           Script(NoSecret, NoCertificate, r, <<>>, NoAnswers, NoAnswers)>> : r \in bad}
        \cup {<<KeyVaultValue(n, "", 2),
                history(BothVersions, ("v1" :> r) @@ ("v2" :> good("v2")))>> : r \in bad}
        \cup {<<KeyVaultValue(n, "", 1), history(NoVersions, NoAnswers)>>,
              <<KeyVaultValue(n, "", 1), history(NoValidVersion, NoAnswers)>>,
              <<KeyVaultValue(n, "v2", 1), history(OnlyFirstVersion, "v1" :> good("v1"))>>,
              <<KeyVaultValue(n, "v2", 2), history(NoVersions, NoAnswers)>>}

\* two objects and their scripts: the first meets a bundle that lacks a
\* field or an empty trimmed history, the second anything
SoftCertificates ==
    {<<p, q>> : p \in SoftCertificateCases("a"),
                q \in SoftCertificateCases("b")
                      \cup UNION {{<<o, sc>> : sc \in SeveralCertificateScripts(o)} :
                                     o \in SeveralObjects}}

SoftKeys ==
    {<<p, q>> : p \in SoftKeyCases("a"),
                q \in SoftKeyCases("b")
                      \cup UNION {{<<o, sc>> : sc \in SeveralKeyScripts(o)} :
                                     o \in SeveralObjects}}

\* the most entries the shared store holds when a cycle starts
MaxStored == 1

\* the entries earlier cycles have saved; GetKeys returns no disabled key
StoreEntries ==
    {StoreEntry("certificates", r, KMPMapKey("a", "v1", e)) :
        r \in Resources, e \in BOOLEAN}
    \cup {StoreEntry("keys", r, KMPMapKey("a", "v1", TRUE)) : r \in Resources}

Stores == {S \in SUBSET StoreEntries : Cardinality(S) <= MaxStored}

\* akvKMProvider: the fields the fetch reads
Provider(resource, certificates, keys) ==
    [resource |-> resource, certificates |-> certificates, keys |-> keys]

NoProvider == Provider("", <<>>, <<>>)
NoReturn == Returned(TRUE, {}, getStatusMap(<<>>, ""), NoFailure)

(***************************************************************************)
(* The refresher factory registry (refresh package)                        *)
(***************************************************************************)
\* a nil RefresherFactory
NilFactory == "nil"

\* the factories: two whose Create returns a refresher, one whose Create
\* returns an error
Factories == {"kube", "mock", "failing"}

\* the names factories are registered under
FactoryNames == {"", "kubeRefresher", "mockRefresher"}

\* refresherFactories[name] is present
Registered(registry, name) == \E e \in registry : e.Name = name

\* refresherFactories[name]
FactoryOf(registry, name) == (CHOOSE e \in registry : e.Name = name).Factory

\* refresherFactories[name] = factory
MapAssign(registry, name, factory) ==
    {e \in registry : e.Name /= name} \cup {[Name |-> name, Factory |-> factory]}

\* the outcome of Register: whether it panicked, and the registry after it
Registration(panic, registry) == [panic |-> panic, registry |-> registry]

\* a Register that does not look the name up first
RegisterOverwriting(registry, name, factory) ==
    IF factory = NilFactory THEN Registration(TRUE, registry)
    ELSE Registration(FALSE, MapAssign(registry, name, factory))

\* Register
Register(registry, name, factory) ==
    IF factory = NilFactory THEN Registration(TRUE, registry)
    ELSE IF Registered(registry, name) THEN Registration(TRUE, registry)
    ELSE Registration(FALSE, MapAssign(registry, name, factory))

\* the "type" entry of a configuration map: absent, a value that is not a
\* string, or a string
TypeEntry(kind, str) == [kind |-> kind, str |-> str]
MissingType == TypeEntry("missing", "")
NumberType == TypeEntry("number", "")
StringType(str) == TypeEntry("string", str)

\* refresherConfig: the "type" entry and the rest of the map
RefresherConfig(type, rest) == [type |-> type, rest |-> rest]
NoConfig == RefresherConfig(MissingType, "")

RefresherConfigs ==
    {RefresherConfig(t, rest) :
        t \in {MissingType, NumberType} \cup {StringType(n) : n \in FactoryNames \cup {"unknown"}},
        rest \in {"", "interval"}}

\* a Refresher, by the factory that made it and the configuration it was made from
Refresher(factory, config) == [factory |-> factory, config |-> config]
NilRefresher == Refresher(NilFactory, NoConfig)

\* what CreateRefresherFromConfig returns, and the factories it invoked
Created(refresher, err, invoked) ==
    [refresher |-> refresher, err |-> err, invoked |-> invoked]

\* RefresherFactory.Create of a registered factory
FactoryCreate(factory, config) ==
    IF factory = "failing" THEN Created(NilRefresher, "create failed", <<factory>>)
    ELSE Created(Refresher(factory, config), "", <<factory>>)

\* the type assertion refresherConfig["type"].(string): the string and ok
TypeAssertion(config) ==
    IF config.type.kind = "string" THEN [value |-> config.type.str, ok |-> TRUE]
    ELSE [value |-> "", ok |-> FALSE]

\* a CreateRefresherFromConfig that ignores the outcome of the type assertion
\* and does not reject the empty type
CreateRefresherFromConfigUnchecked(registry, refresherConfig) ==
    LET refresherType == TypeAssertion(refresherConfig).value
    IN  IF ~Registered(registry, refresherType)
        THEN Created(NilRefresher, "refresher factory not found", <<>>)
        ELSE FactoryCreate(FactoryOf(registry, refresherType), refresherConfig)

\* CreateRefresherFromConfig
CreateRefresherFromConfig(registry, refresherConfig) ==
    LET asserted == TypeAssertion(refresherConfig)
        refresherType == asserted.value
    IN  IF ~asserted.ok \/ refresherType = ""
        THEN Created(NilRefresher, "refresher type cannot be empty", <<>>)
        ELSE IF ~Registered(registry, refresherType)
        THEN Created(NilRefresher, "refresher factory not found", <<>>)
        ELSE FactoryCreate(FactoryOf(registry, refresherType), refresherConfig)

\* a call on the registry and its outcome
RegistryCall(op, name, factory, config, panicked, created) ==
    [op |-> op, name |-> name, factory |-> factory, config |-> config,
     panicked |-> panicked, created |-> created]
NoRegistryCall ==
    RegistryCall("none", "", NilFactory, NoConfig, FALSE, Created(NilRefresher, "", <<>>))

(***************************************************************************)
(* The reconciler of KeyManagementProvider resources and the status        *)
(* document it persists (clusterresource package)                          *)
(***************************************************************************)
\* the longest error string drawn
MaxErrLen == 3

\* the reconciliation cycles of one behaviour
MaxCycles == 2

\* constants.MaxBriefErrLength, scaled to the error strings drawn
MaxBriefErrLength == 2

\* strings are sequences of bytes, as len and slicing take them
ErrChars == {"x", "y"}
ErrorStrings == UNION {[1..n -> ErrChars] : n \in 0..MaxErrLen}
Ellipsis == <<".", ".", ".">>

\* kmp.KeyManagementProviderStatus: nil, or the status of a fetch
NilStatus == "nil"
KMProviderStatuses == {NilStatus, "certificates", "keys"}

\* json.Marshal into a runtime.RawExtension
Marshal(kmProviderStatus) == <<"json", kmProviderStatus>>
NoProperties == <<>>

\* the zero metav1.Time
NilTime == 0

\* KeyManagementProvider.Status
StatusDocument(isSuccess, error, briefError, lastFetchedTime, properties) ==
    [isSuccess |-> isSuccess, error |-> error, briefError |-> briefError,
     lastFetchedTime |-> lastFetchedTime, properties |-> properties]
EmptyStatus == StatusDocument(FALSE, <<>>, <<>>, NilTime, NoProperties)

\* an error update that truncates from MaxBriefErrLength bytes on
updateKMProviderErrorStatusFrom(status, errorString, operationTime) ==
    LET briefErr == IF Len(errorString) >= MaxBriefErrLength
                    THEN SubSeq(errorString, 1, MaxBriefErrLength) \o Ellipsis
                    ELSE errorString
    IN  StatusDocument(FALSE, errorString, briefErr, operationTime, status.properties)

\* updateKMProviderErrorStatus
updateKMProviderErrorStatus(status, errorString, operationTime) ==
    LET briefErr == IF Len(errorString) > MaxBriefErrLength
                    THEN SubSeq(errorString, 1, MaxBriefErrLength) \o Ellipsis
                    ELSE errorString
    IN  StatusDocument(FALSE, errorString, briefErr, operationTime, status.properties)

\* a success update that writes the properties also for a nil status
updateKMProviderSuccessStatusAlways(status, lastOperationTime, kmProviderStatus) ==
    StatusDocument(TRUE, <<>>, <<>>, lastOperationTime, Marshal(kmProviderStatus))

\* updateKMProviderSuccessStatus
updateKMProviderSuccessStatus(status, lastOperationTime, kmProviderStatus) ==
    StatusDocument(TRUE, <<>>, <<>>, lastOperationTime,
                   IF kmProviderStatus /= NilStatus THEN Marshal(kmProviderStatus)
                   ELSE status.properties)

\* the outcome of writeKMProviderStatus: the resource object handed to
\* Status().Update and the persisted status after it
Written(object, persisted) == [object |-> object, persisted |-> persisted]

\* writeKMProviderStatus on an object read from the persisted resource;
\* statusErr tells whether Status().Update failed
writeKMProviderStatus(persisted, isSuccess, errorString, operationTime, kmProviderStatus, statusErr) ==
    LET object == IF isSuccess
                  THEN updateKMProviderSuccessStatus(persisted, operationTime,
                                                     kmProviderStatus)
                  ELSE updateKMProviderErrorStatus(persisted, errorString, operationTime)
    IN  Written(object, IF statusErr THEN persisted ELSE object)

\* ctrl.Result
Result(requeue, requeueAfter) == [Requeue |-> requeue, RequeueAfter |-> requeueAfter]
EmptyResult == Result(FALSE, 0)
Results == {EmptyResult, Result(FALSE, 1)}

\* the error a call returns: none, the missing client, or the refresher's
GoError(failed, kind, msg) == [Failed |-> failed, Kind |-> kind, Msg |-> msg]
NilError == GoError(FALSE, "", <<>>)
ClientIsNil == GoError(TRUE, "client is nil", <<>>)

\* one fetch attempt of KubeRefresher.Refresh: whether the fetch succeeded,
\* its error string, the status the provider reported, the Result the
\* refresher holds afterwards, and whether Status().Update failed
Attempt(isSuccess, errorString, kmProviderStatus, result, statusErr) ==
    [isSuccess |-> isSuccess, errorString |-> errorString,
     kmProviderStatus |-> kmProviderStatus, result |-> result, statusErr |-> statusErr]
NoAttempt == Attempt(FALSE, <<>>, NilStatus, EmptyResult, FALSE)

Attempts ==
    {Attempt(TRUE, <<>>, st, res, u) :
        st \in KMProviderStatuses, res \in Results, u \in BOOLEAN}
    \cup {Attempt(FALSE, e, NilStatus, res, u) :
        e \in ErrorStrings, res \in Results, u \in BOOLEAN}

\* what Refresh leaves behind: its error, kr.Result and the status write
Refreshed(err, result, written) == [err |-> err, result |-> result, written |-> written]

\* KubeRefresher.Refresh: one fetch attempt, then the status write
Refresh(persisted, attempt, operationTime) ==
    Refreshed(IF attempt.isSuccess THEN NilError
              ELSE GoError(TRUE, "refresh", attempt.errorString),
              attempt.result,
              writeKMProviderStatus(persisted, attempt.isSuccess, attempt.errorString,
                                    operationTime, attempt.kmProviderStatus,
                                    attempt.statusErr))

\* what Reconcile returns, the Refresh calls it made and the status after it
Reconciled(result, err, refreshCalls, written) ==
    [result |-> result, err |-> err, refreshCalls |-> refreshCalls, written |-> written]

\* a Reconcile that hands back the refresher's result with the error
ReconcileKeepResult(hasClient, persisted, attempt, operationTime) ==
    IF ~hasClient
    THEN Reconciled(EmptyResult, ClientIsNil, 0, Written(persisted, persisted))
    ELSE LET r == Refresh(persisted, attempt, operationTime)
         IN  Reconciled(r.result, r.err, 1, r.written)

\* Reconcile
Reconcile(hasClient, persisted, attempt, operationTime) ==
    IF ~hasClient
    THEN Reconciled(EmptyResult, ClientIsNil, 0, Written(persisted, persisted))
    ELSE LET r == Refresh(persisted, attempt, operationTime)
         IN  IF r.err.Failed THEN Reconciled(EmptyResult, r.err, 1, r.written)
             ELSE Reconciled(r.result, NilError, 1, r.written)

\* the last Reconcile call: its inputs and what it returned
ReconcileRecord(hasClient, attempt, operationTime, reconciled) ==
    [hasClient |-> hasClient, attempt |-> attempt, operationTime |-> operationTime,
     reconciled |-> reconciled]
NoReconcile ==
    ReconcileRecord(FALSE, NoAttempt, NilTime,
                    Reconciled(EmptyResult, NilError, 0, Written(EmptyStatus, EmptyStatus)))

(***************************************************************************)
(* The controller around Reconcile: events, their filter and the work      *)
(* queue (SetupWithManager)                                                *)
(***************************************************************************)
\* the changes made to the resource's spec in one behaviour
MaxSpecChanges == 2

\* a watch event on the resource: a Create, or an Update from the old to the
\* new object's generation
Event(type, oldGeneration, newGeneration) ==
    [type |-> type, old |-> oldGeneration, new |-> newGeneration]
NoEvent == Event("none", 0, 0)

\* a controller built without WithEventFilter: every event passes
PassEveryEvent(e) == TRUE

\* predicate.GenerationChangedPredicate: it filters Update events only
GenerationChangedPredicate(e) ==
    IF e.type = "Update" THEN e.old /= e.new ELSE TRUE

\* the controller requeues the request after an error or on a Result that
\* asks for it
Requeues(reconciled) ==
    \/ reconciled.err.Failed
    \/ reconciled.result.Requeue
    \/ reconciled.result.RequeueAfter > 0

\* the fetch attempts drawn in the controller loop
LoopAttempts ==
    {a \in Attempts : Len(a.errorString) <= 1 /\ a.kmProviderStatus /= "keys"}

\* the last step of the controller: the event met or the cycle run, and
\* whether it put the request on the work queue
LoopStep(step, event, enqueued) == [step |-> step, event |-> event, enqueued |-> enqueued]
NoStep == LoopStep("none", NoEvent, FALSE)

(***************************************************************************)
(* The provider factory: Create and validate                               *)
(***************************************************************************)
\* strings.TrimSpace on a string taken as its sequence of characters
TrimSpace(str) ==
    LET solid == {i \in 1..Len(str) : str[i] /= " "}
    IN  IF solid = {} THEN <<>>
        ELSE SubSeq(str, CHOOSE i \in solid : \A j \in solid : i <= j,
                         CHOOSE i \in solid : \A j \in solid : j <= i)

\* AKVKeyManagementProviderConfig
AKVConfig(vaultURI, tenantID, clientID, certificates, keys) ==
    [vaultURI |-> vaultURI, tenantID |-> tenantID, clientID |-> clientID,
     certificates |-> certificates, keys |-> keys]

\* the identifiers of a configuration: unset, blank, set, set within blanks
ConfigStrings == {<<>>, <<" ">>, <<"u">>, <<" ", "u", " ">>}

\* the names of the configured objects: unset, set
ConfigNames == {"", "a"}

\* the akvKMProvider under construction; the clients are set last
AKVProvider(vaultURI, tenantID, clientID, certificates, keys, clients) ==
    [vaultURI |-> vaultURI, tenantID |-> tenantID, clientID |-> clientID,
     certificates |-> certificates, keys |-> keys, clients |-> clients]

\* a validate that does not look at the client ID
validateNoClientID(s) ==
    IF s.vaultURI = <<>> THEN "vaultURI is not set"
    ELSE IF s.tenantID = <<>> THEN "tenantID is not set"
    ELSE IF \E i \in DOMAIN s.certificates : s.certificates[i] = ""
    THEN "name is not set for a certificate"
    ELSE IF \E i \in DOMAIN s.keys : s.keys[i] = "" THEN "name is not set for a key"
    ELSE ""

\* validate: the message of the error, "" when there is none
validate(s) ==
    IF s.vaultURI = <<>> THEN "vaultURI is not set"
    ELSE IF s.tenantID = <<>> THEN "tenantID is not set"
    ELSE IF s.clientID = <<>> THEN "clientID is not set"
    ELSE IF \E i \in DOMAIN s.certificates : s.certificates[i] = ""
    THEN "name is not set for a certificate"
    ELSE IF \E i \in DOMAIN s.keys : s.keys[i] = "" THEN "name is not set for a key"
    ELSE ""

\* what Create returns, and how often it called initKVClient
CreateResult(nilProvider, provider, code, initCalls) ==
    [nilProvider |-> nilProvider, provider |-> provider, code |-> code,
     initCalls |-> initCalls]
NoAKVProvider == AKVProvider(<<>>, <<>>, <<>>, <<>>, <<>>, FALSE)
CreateFailed(code, initCalls) == CreateResult(TRUE, NoAKVProvider, code, initCalls)

\* Create; parsed tells whether the configuration unmarshals, initErr
\* whether initKVClient fails
Create(conf, parsed, initErr) ==
    IF ~parsed THEN CreateFailed("CONFIG_INVALID", 0)
    ELSE IF Len(conf.certificates) = 0 /\ Len(conf.keys) = 0
    THEN CreateFailed("CONFIG_INVALID", 0)
    ELSE LET provider == AKVProvider(TrimSpace(conf.vaultURI), TrimSpace(conf.tenantID),
                                     TrimSpace(conf.clientID), conf.certificates,
                                     conf.keys, FALSE)
         IN  IF validate(provider) /= "" THEN CreateFailed("CONFIG_INVALID", 0)
             ELSE IF initErr THEN CreateFailed("PLUGIN_INIT_FAILURE", 1)
             ELSE CreateResult(FALSE, [provider EXCEPT !.clients = TRUE], "", 1)

(***************************************************************************)
(* State                                                                   *)
(***************************************************************************)
VARIABLES
    tListed,    \* SpecTrim: the versions of one object as the pager listed them
    tLimit,     \* SpecTrim: the object's versionHistoryLimit
    tVersion,   \* SpecTrim: the object's pinned version, "" when none
    tSorted,    \* SpecTrim: the history after Sort
    tTrimmed,   \* SpecTrim: the result of trimVersionHistory
    tPc,        \* SpecTrim: "listed" before, "trimmed" after the sort and trim
    pc,          \* "idle", "returned" after a fetch call, "panicked"
    kind,        \* "certificates" after GetCertificates, "keys" after GetKeys
    provider,    \* the akvKMProvider of the cycle
    scripts,     \* the vault's responses, per configured object
    ret,         \* what the call returned
    store,       \* the shared store
    storeBefore, \* the shared store when the call began
    requests,    \* the vault requests of the call, in order
    deletes,     \* the store-deletes of the call, in order
    refresherFactories, \* SpecRegistry: the registry, a set of name/factory pairs
    registryBefore,     \* SpecRegistry: the registry when the last call began
    firstRegistered,    \* SpecRegistry: per name, the first non-nil factory given to Register
    registryCall,       \* SpecRegistry: the last call on the registry and its outcome
    kmpStatus,      \* the persisted status document of the resource
    clock,          \* SpecReconcile: the time of the last cycle
    cycle,          \* "none" before the first Reconcile call, "done" after one
    lastReconcile,  \* the last Reconcile call
    generation,     \* SpecLoop: metadata.generation of the resource
    queue,          \* SpecLoop: TRUE when the request is on the work queue
    statusEvent,    \* SpecLoop: TRUE when a status Update event awaits delivery
    loopStep,       \* SpecLoop: the last step of the controller
    conf,           \* SpecCreate: the configuration handed to Create
    parsed,         \* SpecCreate: whether the configuration unmarshals
    createPc,       \* SpecCreate: "configured" before, "created" after Create
    createRet,      \* SpecCreate: what Create returned
    firstRet,       \* SpecRefetch: what the first of two calls returned
    firstStore,     \* SpecRefetch: the shared store after the first of two calls
    cycles,         \* SpecInterleave: per cycle, its provider identity and its store-deletes
    pending         \* SpecInterleave: per cycle, the store-deletes still to come

trimVars == <<tListed, tLimit, tVersion, tSorted, tTrimmed, tPc>>

fetchVars == <<pc, kind, provider, scripts, ret, store, storeBefore, requests, deletes>>

registryVars == <<refresherFactories, registryBefore, firstRegistered, registryCall>>

reconcileVars == <<kmpStatus, clock, cycle, lastReconcile>>

loopVars == <<generation, queue, statusEvent, loopStep>>

createVars == <<conf, parsed, createPc, createRet>>

refetchVars == <<firstRet, firstStore>>

interleaveVars == <<cycles, pending>>

vars == <<trimVars, fetchVars, registryVars, reconcileVars, loopVars, createVars, refetchVars, interleaveVars>>

\* no cycles run side by side
NoInterleave ==
    /\ cycles = <<>>
    /\ pending = <<>>

\* no call is repeated
NoRefetch ==
    /\ firstRet = NoReturn
    /\ firstStore = {}

\* no provider is under construction
NoCreate ==
    /\ conf = AKVConfig(<<>>, <<>>, <<>>, <<>>, <<>>)
    /\ parsed = FALSE
    /\ createPc = "created"
    /\ createRet = CreateFailed("CONFIG_INVALID", 0)

\* no controller runs
NoLoop ==
    /\ generation = 0
    /\ queue = FALSE
    /\ statusEvent = FALSE
    /\ loopStep = NoStep

\* the resource before its first reconciliation
NoReconciliation ==
    /\ kmpStatus = EmptyStatus
    /\ clock = NilTime
    /\ cycle = "none"
    /\ lastReconcile = NoReconcile

\* the registry before any registration
NoRegistration ==
    /\ refresherFactories = {}
    /\ registryBefore = {}
    /\ firstRegistered = {}
    /\ registryCall = NoRegistryCall

\* no fetch cycle runs
NoFetch ==
    /\ pc = "idle"
    /\ kind = ""
    /\ provider = NoProvider
    /\ scripts = <<>>
    /\ ret = NoReturn
    /\ storeBefore = {}
    /\ requests = <<>>
    /\ deletes = <<>>

(***************************************************************************)
(* Spec: fetch cycles of GetCertificates and GetKeys against the store     *)
(***************************************************************************)
Init ==
    /\ NoInterleave
    /\ NoRefetch
    /\ NoCreate
    /\ NoLoop
    /\ NoFetch
    /\ NoRegistration
    /\ NoReconciliation
    /\ store \in Stores
    /\ tListed = <<>>
    /\ tLimit = 1
    /\ tVersion = ""
    /\ tSorted = <<>>
    /\ tTrimmed = [panic |-> FALSE, value |-> <<>>]
    /\ tPc = "trimmed"

\* the state a call leaves behind
Fetched(s, st, contentType, responses) ==
    /\ pc' = IF st.panic THEN "panicked" ELSE "returned"
    /\ kind' = contentType
    /\ provider' = s
    /\ scripts' = responses
    /\ ret' = IF st.panic THEN NoReturn ELSE returnResult(st, contentType)
    /\ store' = st.store
    /\ storeBefore' = store
    /\ requests' = st.requests
    /\ deletes' = st.deletes
    /\ UNCHANGED <<trimVars, registryVars, reconcileVars, loopVars, createVars, refetchVars, interleaveVars>>

\* the sequence of the first (i = 1) or second components of the pairs
Column(c, i) == [j \in DOMAIN c |-> c[j][i]]

\* GetCertificates of a provider with one object and any response, or with
\* several objects
GetCertificatesCall ==
    /\ pc = "idle"
    /\ \E resource \in Resources :
          \/ \E o \in OneObject : \E pages \in ScriptPages(o) :
                \E sc \in CertificateScripts(o, pages) :
                   LET s == Provider(resource, <<o>>, <<>>)
                   IN  Fetched(s, GetCertificates(s, store, <<sc>>), "certificates",
                               <<sc>>)
          \/ \E c \in SeveralCertificates :
                LET s == Provider(resource, Column(c, 1), <<>>)
                IN  Fetched(s, GetCertificates(s, store, Column(c, 2)), "certificates",
                            Column(c, 2))

GetKeysCall ==
    /\ pc = "idle"
    /\ \E resource \in Resources :
          \/ \E o \in OneObject : \E pages \in ScriptPages(o) :
                \E sc \in KeyScripts(o, pages) :
                   LET s == Provider(resource, <<>>, <<o>>)
                   IN  Fetched(s, GetKeys(s, store, <<sc>>), "keys", <<sc>>)
          \/ \E c \in SeveralKeys :
                LET s == Provider(resource, <<>>, Column(c, 1))
                IN  Fetched(s, GetKeys(s, store, Column(c, 2)), "keys", Column(c, 2))

\* the cycle ends; the next one builds its provider afresh
EndCycle ==
    /\ pc = "returned"
    /\ pc' = "idle"
    /\ kind' = ""
    /\ provider' = NoProvider
    /\ scripts' = <<>>
    /\ ret' = NoReturn
    /\ storeBefore' = {}
    /\ requests' = <<>>
    /\ deletes' = <<>>
    /\ UNCHANGED <<store, trimVars, registryVars, reconcileVars, loopVars, createVars, refetchVars, interleaveVars>>

Next == GetCertificatesCall \/ GetKeysCall \/ EndCycle

Spec == Init /\ [][Next]_vars

\* the fetches of a process whose shared store is still empty
InitFresh == Init /\ store = {}

SpecFresh == InitFresh /\ [][Next]_vars

(***************************************************************************)
(* SpecTrim: sort then trim, on every listing, limit and pinned version    *)
(***************************************************************************)
\* the non-zero limits processCertificate and processKey route to the trim
TrimLimits == (-1..MaxLimit) \ {0}

InitTrim ==
    /\ NoInterleave
    /\ NoRefetch
    /\ NoCreate
    /\ NoLoop
    /\ tListed \in Listings(TrimVersions, MaxLen)
    /\ tLimit \in TrimLimits
    /\ tVersion \in {""} \cup TrimVersions
    /\ tSorted = <<>>
    /\ tTrimmed = [panic |-> FALSE, value |-> <<>>]
    /\ tPc = "listed"
    /\ NoFetch
    /\ store = {}
    /\ NoRegistration
    /\ NoReconciliation

\* fetchCertificateVersionHistory's Sort followed by trimVersionHistory
SortAndTrim ==
    /\ tPc = "listed"
    /\ tSorted' = Sort(tListed)
    /\ tTrimmed' = trimVersionHistory(Sort(tListed), tLimit, tVersion)
    /\ tPc' = "trimmed"
    /\ UNCHANGED <<tListed, tLimit, tVersion, fetchVars, registryVars, reconcileVars, loopVars, createVars, refetchVars, interleaveVars>>

NextTrim == SortAndTrim

SpecTrim == InitTrim /\ [][NextTrim]_vars

(***************************************************************************)
(* SpecRegistry: Register and CreateRefresherFromConfig calls on the       *)
(* refresher factory registry                                              *)
(***************************************************************************)
\* no sort-and-trim runs
NoTrim ==
    /\ tListed = <<>>
    /\ tLimit = 0
    /\ tVersion = ""
    /\ tSorted = <<>>
    /\ tTrimmed = [panic |-> FALSE, value |-> <<>>]
    /\ tPc = "trimmed"

InitRegistry ==
    /\ NoInterleave
    /\ NoRefetch
    /\ NoCreate
    /\ NoLoop
    /\ NoRegistration
    /\ NoReconciliation
    /\ NoFetch
    /\ store = {}
    /\ NoTrim

RegisterCall ==
    \E name \in FactoryNames, factory \in Factories \cup {NilFactory} :
        LET r == Register(refresherFactories, name, factory)
        IN  /\ refresherFactories' = r.registry
            /\ registryBefore' = refresherFactories
            /\ firstRegistered' =
                  IF factory /= NilFactory /\ ~Registered(firstRegistered, name)
                  THEN firstRegistered \cup {[Name |-> name, Factory |-> factory]}
                  ELSE firstRegistered
            /\ registryCall' = RegistryCall("Register", name, factory, NoConfig, r.panic,
                                            Created(NilRefresher, "", <<>>))
            /\ UNCHANGED <<trimVars, fetchVars, reconcileVars, loopVars, createVars, refetchVars, interleaveVars>>

CreateRefresherFromConfigCall ==
    \E config \in RefresherConfigs :
        /\ registryCall' = RegistryCall("CreateRefresherFromConfig", "", NilFactory, config,
                               FALSE, CreateRefresherFromConfig(refresherFactories, config))
        /\ registryBefore' = refresherFactories
        /\ UNCHANGED <<refresherFactories, firstRegistered, trimVars, fetchVars, reconcileVars, loopVars, createVars, refetchVars, interleaveVars>>

NextRegistry == RegisterCall \/ CreateRefresherFromConfigCall

SpecRegistry == InitRegistry /\ [][NextRegistry]_vars

(***************************************************************************)
(* SpecReconcile: Reconcile calls on one resource, each at a later time    *)
(***************************************************************************)
InitReconcile ==
    /\ NoInterleave
    /\ NoRefetch
    /\ NoCreate
    /\ NoLoop
    /\ NoReconciliation
    /\ NoRegistration
    /\ NoFetch
    /\ store = {}
    /\ NoTrim

ReconcileCall ==
    /\ clock < MaxCycles
    /\ \E hasClient \in BOOLEAN, attempt \in Attempts :
          LET r == Reconcile(hasClient, kmpStatus, attempt, clock + 1)
          IN  /\ kmpStatus' = r.written.persisted
              /\ lastReconcile' = ReconcileRecord(hasClient, attempt, clock + 1, r)
    /\ clock' = clock + 1
    /\ cycle' = "done"
    /\ UNCHANGED <<trimVars, fetchVars, registryVars, loopVars, createVars, refetchVars, interleaveVars>>

NextReconcile == ReconcileCall

SpecReconcile == InitReconcile /\ [][NextReconcile]_vars

(***************************************************************************)
(* SpecLoop: the controller of one resource.  The resource is created,     *)
(* its spec changes, cycles run off the work queue, and every persisted    *)
(* status write comes back as an Update event                              *)
(***************************************************************************)
InitLoop ==
    /\ NoInterleave
    /\ NoRefetch
    /\ NoCreate
    /\ generation = 1
    /\ queue = GenerationChangedPredicate(Event("Create", 0, 1))
    /\ statusEvent = FALSE
    /\ loopStep = LoopStep("event", Event("Create", 0, 1),
                           GenerationChangedPredicate(Event("Create", 0, 1)))
    /\ NoReconciliation
    /\ NoRegistration
    /\ NoFetch
    /\ store = {}
    /\ NoTrim

\* the resource's spec is changed: an Update event with a new generation
SpecChange ==
    /\ generation <= MaxSpecChanges
    /\ generation' = generation + 1
    /\ LET e == Event("Update", generation, generation + 1)
       IN  /\ queue' = (queue \/ GenerationChangedPredicate(e))
           /\ loopStep' = LoopStep("event", e, GenerationChangedPredicate(e))
    /\ UNCHANGED <<statusEvent, trimVars, fetchVars, registryVars, reconcileVars, createVars, refetchVars, interleaveVars>>

\* the Update event of a status write is delivered: the generation is the same
StatusUpdateEvent ==
    /\ statusEvent
    /\ statusEvent' = FALSE
    /\ LET e == Event("Update", generation, generation)
       IN  /\ queue' = (queue \/ GenerationChangedPredicate(e))
           /\ loopStep' = LoopStep("event", e, GenerationChangedPredicate(e))
    /\ UNCHANGED <<generation, trimVars, fetchVars, registryVars, reconcileVars, createVars, refetchVars, interleaveVars>>

\* a worker takes the request off the queue and runs Reconcile
ReconcileCycle ==
    /\ queue
    /\ \E hasClient \in BOOLEAN, attempt \in LoopAttempts :
          LET r == Reconcile(hasClient, kmpStatus, attempt, clock + 1)
          IN  /\ kmpStatus' = r.written.persisted
              /\ lastReconcile' = ReconcileRecord(hasClient, attempt, clock + 1, r)
              /\ statusEvent' = (statusEvent \/ (hasClient /\ ~attempt.statusErr))
              /\ queue' = Requeues(r)
              /\ loopStep' = LoopStep("cycle", NoEvent, Requeues(r))
    /\ cycle' = "done"
    /\ UNCHANGED <<clock, generation, trimVars, fetchVars, registryVars, createVars, refetchVars, interleaveVars>>

NextLoop == SpecChange \/ StatusUpdateEvent \/ ReconcileCycle

SpecLoop == InitLoop /\ [][NextLoop]_vars

\* the workers take what is on the queue, and the watch delivers its events
SpecLoopFair ==
    SpecLoop /\ WF_vars(ReconcileCycle) /\ WF_vars(StatusUpdateEvent)

(***************************************************************************)
(* SpecCreate: Create applied to a configuration                           *)
(***************************************************************************)
\* the configured names: up to MaxObjects of them
ConfiguredNames == UNION {[1..n -> ConfigNames] : n \in 0..MaxObjects}

InitCreate ==
    /\ NoInterleave
    /\ NoRefetch
    /\ conf \in {AKVConfig(v, t, c, certs, ks) :
                    v \in ConfigStrings, t \in ConfigStrings \ {<<" ", "u", " ">>},
                    c \in ConfigStrings \ {<<" ", "u", " ">>},
                    certs \in ConfiguredNames, ks \in ConfiguredNames}
    /\ parsed \in BOOLEAN
    /\ createPc = "configured"
    /\ createRet = CreateFailed("CONFIG_INVALID", 0)
    /\ NoLoop
    /\ NoReconciliation
    /\ NoRegistration
    /\ NoFetch
    /\ store = {}
    /\ NoTrim

CreateCall ==
    /\ createPc = "configured"
    /\ \E initErr \in BOOLEAN : createRet' = Create(conf, parsed, initErr)
    /\ createPc' = "created"
    /\ UNCHANGED <<conf, parsed, trimVars, fetchVars, registryVars, reconcileVars, loopVars, refetchVars, interleaveVars>>

NextCreate == CreateCall

SpecCreate == InitCreate /\ [][NextCreate]_vars

(***************************************************************************)
(* SpecRefetch: the fetch of a cycle run twice in a row, with the same     *)
(* configuration against the same vault                                    *)
(***************************************************************************)
InitRefetch ==
    /\ NoInterleave
    /\ NoFetch
    /\ store \in Stores
    /\ NoRefetch
    /\ NoCreate
    /\ NoLoop
    /\ NoReconciliation
    /\ NoRegistration
    /\ NoTrim

FirstGetCertificates ==
    /\ pc = "idle"
    /\ \E resource \in Resources, c \in SeveralCertificates \cup SoftCertificates :
          LET s == Provider(resource, Column(c, 1), <<>>)
          IN  Fetched(s, GetCertificates(s, store, Column(c, 2)), "certificates",
                      Column(c, 2))

FirstGetKeys ==
    /\ pc = "idle"
    /\ \E resource \in Resources, c \in SeveralKeys \cup SoftKeys :
          LET s == Provider(resource, <<>>, Column(c, 1))
          IN  Fetched(s, GetKeys(s, store, Column(c, 2)), "keys", Column(c, 2))

\* the next cycle builds the provider again from the same configuration and
\* meets the same vault
SecondCall ==
    /\ pc = "returned"
    /\ LET st == IF kind = "certificates" THEN GetCertificates(provider, store, scripts)
                 ELSE GetKeys(provider, store, scripts)
       IN  /\ pc' = IF st.panic THEN "panicked" ELSE "refetched"
           /\ ret' = IF st.panic THEN NoReturn ELSE returnResult(st, kind)
           /\ store' = st.store
           /\ requests' = st.requests
           /\ deletes' = st.deletes
    /\ storeBefore' = store
    /\ firstRet' = ret
    /\ firstStore' = store
    /\ UNCHANGED <<kind, provider, scripts, trimVars, registryVars, reconcileVars, loopVars, createVars, interleaveVars>>

NextRefetch == FirstGetCertificates \/ FirstGetKeys \/ SecondCall

SpecRefetch == InitRefetch /\ [][NextRefetch]_vars

(***************************************************************************)
(* SpecInterleave: the cycles of two provider identities run side by side; *)
(* their store-deletes reach the shared store in any interleaving          *)
(***************************************************************************)
\* the store-deletes, in order, that a fetch of the provider identity can issue
DeleteRuns(resource) ==
    {GetCertificates(Provider(resource, Column(c, 1), <<>>), {}, Column(c, 2)).deletes :
        c \in SeveralCertificates}
    \cup {GetKeys(Provider(resource, <<>>, Column(c, 1)), {}, Column(c, 2)).deletes :
            c \in SeveralKeys}

DeleteRunsFirst == DeleteRuns("r1")
DeleteRunsSecond == DeleteRuns("r2")

\* the stores that earlier cycles of both identities have filled: every
\* entry, or all but one
FullStores ==
    {S \in SUBSET StoreEntries : Cardinality(S) >= Cardinality(StoreEntries) - 1}

InitInterleave ==
    /\ cycles \in {<<[resource |-> "r1", deletes |-> d1], [resource |-> "r2", deletes |-> d2]>> :
                      d1 \in DeleteRunsFirst, d2 \in DeleteRunsSecond}
    /\ pending = [c \in 1..2 |-> cycles[c].deletes]
    /\ store \in FullStores
    /\ storeBefore = store
    /\ pc = "idle"
    /\ kind = ""
    /\ provider = NoProvider
    /\ scripts = <<>>
    /\ ret = NoReturn
    /\ requests = <<>>
    /\ deletes = <<>>
    /\ NoRefetch
    /\ NoCreate
    /\ NoLoop
    /\ NoReconciliation
    /\ NoRegistration
    /\ NoTrim

\* the next store-delete of cycle c reaches the store
StoreDelete(c) ==
    /\ pending[c] /= <<>>
    /\ LET d == Head(pending[c])
       IN  /\ store' = IF d.Kind = "certificates"
                       THEN DeleteCertificateFromMap(store, d.Resource, d.Key)
                       ELSE DeleteKeyFromMap(store, d.Resource, d.Key)
           /\ deletes' = Append(deletes, d)
    /\ pending' = [pending EXCEPT ![c] = Tail(@)]
    /\ UNCHANGED <<cycles, pc, kind, provider, scripts, ret, storeBefore, requests, trimVars, registryVars, reconcileVars, loopVars, createVars, refetchVars>>

StoreDeleteFirst == StoreDelete(1)

StoreDeleteSecond == StoreDelete(2)

NextInterleave == StoreDeleteFirst \/ StoreDeleteSecond

SpecInterleave == InitInterleave /\ [][NextInterleave]_vars

(***************************************************************************)
(* Claims on the trimming (SpecTrim)                                       *)
(***************************************************************************)
IsSortedByCreated(h) ==
    \A i, j \in DOMAIN h : i < j => h[i].Created < h[j].Created

SameEntries(g, h) ==
    /\ Len(g) = Len(h)
    /\ {g[i] : i \in DOMAIN g} = {h[i] : i \in DOMAIN h}

\* the index (from 1) of the pinned version in the sorted history, 0 when absent
PinnedAt ==
    IF \E i \in DOMAIN tSorted : tSorted[i].Version = tVersion
    THEN CHOOSE i \in DOMAIN tSorted : tSorted[i].Version = tVersion
    ELSE 0

\* C6: with no pinned version and a positive limit, sorting the listed versions
\* ascending by creation time and trimming returns exactly the last
\* min(limit, len) entries of the sorted history in sorted order; with
\* limit = len the whole sorted history is returned.
C6_SuffixWindow ==
    (tPc = "trimmed" /\ tVersion = "" /\ tLimit > 0) =>
        LET n == Len(tSorted)
            k == Min(tLimit, n)
        IN  /\ IsSortedByCreated(tSorted)
            /\ SameEntries(tSorted, tListed)
            /\ ~tTrimmed.panic
            /\ Len(tTrimmed.value) = k
            /\ \A i \in 1..k : tTrimmed.value[i] = tSorted[n - k + i]
            /\ (tLimit = n => tTrimmed.value = tSorted)

C6_Witness ==
    /\ tPc = "trimmed" /\ tVersion = ""
    /\ tListed /= tSorted
    /\ Len(tSorted) = 3 /\ tLimit = 2
    /\ tTrimmed.value = <<tSorted[2], tSorted[3]>>

\* C7: for a pinned version present at index i of the sorted history and a
\* positive limit, trimming returns exactly the entries max(0, i - limit) .. i:
\* the pinned version is the last element and there are at most limit + 1.
C7_PinnedWindow ==
    (tPc = "trimmed" /\ tVersion /= "" /\ tLimit > 0 /\ PinnedAt > 0) =>
        LET i == PinnedAt - 1
            lo == Max(0, i - tLimit)
            r == tTrimmed.value
        IN  /\ ~tTrimmed.panic
            /\ Len(r) = i - lo + 1
            /\ \A j \in 1..Len(r) : r[j] = tSorted[lo + j]
            /\ r[Len(r)].Version = tVersion
            /\ Len(r) <= tLimit + 1

C7_Witness ==
    /\ tPc = "trimmed" /\ tVersion /= "" /\ tLimit = 1
    /\ tListed /= tSorted
    /\ PinnedAt = 3
    /\ tTrimmed.value = <<tSorted[2], tSorted[3]>>

\* C8 as stated: for every positive limit N and every history, pinned or not,
\* at most N versions are retained after trimming.
C8_AtMostLimit ==
    (tPc = "trimmed" /\ tLimit > 0) => Len(tTrimmed.value) <= tLimit

\* C8 amended: at most N versions are retained when no version is pinned, and
\* at most N + 1 (the pinned version and up to N older ones) when one is.
C8_AtMostLimitOrOneMore ==
    (tPc = "trimmed" /\ tLimit > 0) =>
        /\ ~tTrimmed.panic
        /\ Len(tTrimmed.value) <= (IF tVersion = "" THEN tLimit ELSE tLimit + 1)

C8_Witness ==
    /\ tPc = "trimmed" /\ tVersion /= "" /\ tLimit = 1
    /\ PinnedAt >= 2
    /\ Len(tTrimmed.value) = tLimit + 1

(***************************************************************************)
(* Claims on the fetch calls (Spec)                                        *)
(***************************************************************************)
Range(s) == {s[i] : i \in DOMAIN s}

\* the configured objects of the call
Objects == IF kind = "certificates" THEN provider.certificates ELSE provider.keys

Succeeded == pc = "returned" /\ ~ret.err.Failed
Failed == pc = "returned" /\ ret.err.Failed

\* object i processed on its own, with the responses the call met
Alone(i) ==
    LET fresh == Call({}, <<>>, NoFailure, FALSE, {}, <<>>, <<>>)
    IN  IF kind = "certificates"
        THEN processCertificate(provider, i, Objects[i], fresh, scripts[i])
        ELSE processKey(provider, i, Objects[i], fresh, scripts[i])

\* every object processed on its own
AloneAll == [i \in DOMAIN Objects |-> Alone(i)]

\* the first object in configuration order whose processing returns an
\* error, 0 when there is none
FirstFailingOf(alone) ==
    IF \E i \in DOMAIN alone : alone[i].err.Failed
    THEN CHOOSE i \in DOMAIN alone :
            alone[i].err.Failed /\ \A j \in 1..(i - 1) : ~alone[j].err.Failed
    ELSE 0

FirstFailing == FirstFailingOf(AloneAll)

\* the versions of object i the vault reports as disabled: by the flag of the
\* bundle it hands out in the limit-0 path, by the flag of the listed entry
\* in the version-history path
ReportedDisabled(i) ==
    LET o == Objects[i]
        sc == scripts[i]
        secret == sc.secret.bundle
        cert == sc.cert.bundle
        key == sc.key.bundle
        history == fetchVersionHistory(sc.pages)
        trimmed == trimVersionHistory(history.versionHistory, o.VersionHistoryLimit,
                                      o.Version)
    IN  IF o.VersionHistoryLimit /= 0
        THEN IF history.err.Failed \/ trimmed.panic THEN {}
             ELSE {trimmed.value[j].Version :
                     j \in {k \in DOMAIN trimmed.value : ~trimmed.value[k].Enabled}}
        ELSE IF kind = "keys"
        THEN IF ~sc.key.err.Failed /\ key.Attributes = "false" /\ key.HasKey
                /\ key.Key.KID /= NilID
             THEN {IDVersion(key.Key.KID)} ELSE {}
        ELSE IF ~sc.secret.err.Failed
        THEN IF isValidSecretBundle(secret) /\ secret.Attributes = "false"
             THEN {IDVersion(secret.ID)} ELSE {}
        ELSE IF sc.secret.err.InnerCode = "SecretDisabled" /\ ~sc.cert.err.Failed
                /\ isValidCertificateBundle(cert) /\ cert.Attributes = "false"
             THEN {IDVersion(cert.ID)} ELSE {}

\* C1: after a call that returns without error, every version the vault
\* reports as disabled has no entry under its MapKey in the returned map, has
\* a status entry with enabled=false, and caused a store-delete for its MapKey
C1_DisabledReconciled ==
    Succeeded =>
        \A i \in DOMAIN Objects : \A v \in ReportedDisabled(i) :
            LET name == Objects[i].Name
                mapKey == KMPMapKey(name, v, FALSE)
            IN  /\ mapKey \notin MapKeys(ret.map)
                /\ getStatusProperty(name, v, FALSE) \in Range(ret.status.entries)
                /\ \E d \in Range(deletes) :
                      d.Kind = kind /\ d.Resource = provider.resource /\ d.Key = mapKey

\* C2: when the store holds material under (name, version, enabled=true) for
\* the provider and the fetch sees that version disabled, the store holds no
\* material for that name and version under the provider after the fetch
C2_OldKeyDeleted ==
    Succeeded =>
        \A i \in DOMAIN Objects : \A v \in ReportedDisabled(i) :
            StoreEntry(kind, provider.resource, KMPMapKey(Objects[i].Name, v, TRUE))
                \in storeBefore
            => ~\E e \in store :
                  /\ e.Kind = kind /\ e.Resource = provider.resource
                  /\ e.Key.Name = Objects[i].Name /\ e.Key.Version = v

\* the store entry a store-delete names
Target(d) == StoreEntry(d.Kind, d.Resource, d.Key)

\* C3 as stated: a call that returns an error leaves the store as it was and
\* applies no store-delete
C3_StoreUntouched == Failed => store = storeBefore /\ deletes = <<>>

\* C3: a call that returns an error adds nothing to the store and removes
\* from it exactly the entries named by the store-deletes it applied before
\* the failure, each for the provider's own identity and material kind and
\* for an object not later than the failing one
C3_OnlyEarlierDeletes ==
    Failed =>
        /\ store = storeBefore \ {Target(d) : d \in Range(deletes)}
        /\ \A d \in Range(deletes) :
              /\ d.Kind = kind /\ d.Resource = provider.resource
              /\ d.Obj <= Len(Objects)
              /\ d.Obj <= FirstFailing
              /\ d.Key.Name = Objects[d.Obj].Name

\* a failing call that had deleted a stored entry before it failed
C3_Witness ==
    /\ Failed
    /\ deletes /= <<>>
    /\ store /= storeBefore
    /\ FirstFailing > 1

\* C4: when the processing of an object returns an error, the call returns
\* that error with a nil map and a nil status document, and no object later
\* in configuration order is contacted
C4_AbortsOnFirstError ==
    pc = "returned" =>
        LET alone == AloneAll
            failing == FirstFailingOf(alone)
        IN  failing /= 0 =>
               /\ ret.err = alone[failing].err
               /\ ret.nilResult
               /\ ret.map = {}
               /\ ret.status = getStatusMap(<<>>, "")
               /\ \A r \in Range(requests) : r.Obj <= failing

\* the second object fails after the first one had material and status to
\* return
C4_Witness ==
    /\ pc = "returned"
    /\ Len(Objects) >= 2
    /\ FirstFailing = 2
    /\ Alone(1).map /= {}
    /\ Alone(1).status /= <<>>
    /\ ret.err.Failed

\* a GetCertificates call on one limit-0 certificate whose GetSecret failed
SecretFailed ==
    /\ pc = "returned"
    /\ kind = "certificates"
    /\ Len(Objects) = 1
    /\ Objects[1].VersionHistoryLimit = 0
    /\ scripts[1].secret.err.Failed

\* an HTTP 403 that carries the nested error code "SecretDisabled"
Is403SecretDisabled(err) ==
    err.ResponseError /\ err.StatusCode = 403 /\ err.InnerCode = "SecretDisabled"

\* an HTTP 403 whose body reads as JSON with the error code "Forbidden" and
\* the nested error code "SecretDisabled"
Is403ForbiddenSecretDisabled(err) ==
    /\ Is403SecretDisabled(err)
    /\ err.BodyReadable /\ err.BodyJSON /\ err.Code = "Forbidden"

GetSecretRequest == Request(1, "GetSecret", Objects[1].Name, Objects[1].Version)
GetCertificateRequest == Request(1, "GetCertificate", Objects[1].Name, Objects[1].Version)

\* C5 as stated: a 403 with the nested code "SecretDisabled" does not fail
\* the call: the certificate metadata is fetched, nothing is added to the
\* map, a disabled status entry is recorded and a store-delete is issued;
\* any other GetSecret failure fails the call
C5_DisabledFallback ==
    SecretFailed =>
        IF Is403SecretDisabled(scripts[1].secret.err)
        THEN /\ ~ret.err.Failed
             /\ requests = <<GetSecretRequest, GetCertificateRequest>>
             /\ ret.map = {}
             /\ Len(ret.status.entries) = 1
             /\ ret.status.entries[1].enabled = "false"
             /\ Len(deletes) = 1
        ELSE ret.err.Failed

\* C5: a 403 whose JSON body carries the code "Forbidden" and the nested
\* code "SecretDisabled" makes the provider fetch the certificate metadata.
\* When that fetch fails the call fails; when the metadata bundle is invalid
\* the call succeeds and records nothing; otherwise the call succeeds, adds
\* nothing to the map, records one status entry with the version and the
\* enabled flag of the metadata bundle and issues one store-delete for the
\* MapKey of that name, version and flag.  Any other GetSecret failure fails
\* the call after the one request.
C5_DisabledFallbackByMetadata ==
    SecretFailed =>
        LET bundle == scripts[1].cert.bundle
            name == Objects[1].Name
            version == IDVersion(bundle.ID)
            flag == bundle.Attributes = "true"
        IN  IF Is403ForbiddenSecretDisabled(scripts[1].secret.err)
            THEN /\ requests = <<GetSecretRequest, GetCertificateRequest>>
                 /\ ret.map = {}
                 /\ IF scripts[1].cert.err.Failed
                    THEN /\ ret.err = WrapError("get certificate", scripts[1].cert.err)
                         /\ deletes = <<>>
                    ELSE /\ ~ret.err.Failed
                         /\ IF bundle.Attributes \in {"true", "false"} /\ bundle.ID /= NilID
                            THEN /\ ret.status.entries =
                                        <<getStatusProperty(name, version, flag)>>
                                 /\ deletes =
                                        <<Delete(1, "certificates", provider.resource,
                                                 KMPMapKey(name, version, flag))>>
                            ELSE ret.status.entries = <<>> /\ deletes = <<>>
            ELSE /\ ret.err = WrapError("get secret", scripts[1].secret.err)
                 /\ requests = <<GetSecretRequest>>
                 /\ deletes = <<>>

\* the fallback ran on a secret-disabled error, recorded the disabled version
\* and removed its entry from the store
C5_Witness ==
    /\ SecretFailed
    /\ Is403ForbiddenSecretDisabled(scripts[1].secret.err)
    /\ ~ret.err.Failed
    /\ Len(ret.status.entries) = 1
    /\ ret.status.entries[1].enabled = "false"
    /\ Len(deletes) = 1
    /\ Target(deletes[1]) \in storeBefore \ store

\* the bundle a key fetch of the object answers with lacks the key object or
\* the key type although it is enabled
LacksKey(bundle) ==
    bundle.Attributes = "true" /\ (~bundle.HasKey \/ bundle.Key.Kty = "nil")

\* C9: GetKeys never panics, and it returns an error whenever an enabled key
\* bundle it fetches lacks the key object or the key type, in the limit-0
\* path and in the version-history path
C9_KeysNeverPanic ==
    kind = "keys" =>
        /\ pc /= "panicked"
        /\ \A i \in DOMAIN Objects :
              (\/ Objects[i].VersionHistoryLimit = 0 /\ ~scripts[i].key.err.Failed
                    /\ LacksKey(scripts[i].key.bundle)
               \/ \E v \in DOMAIN scripts[i].keys :
                     ~scripts[i].keys[v].err.Failed /\ LacksKey(scripts[i].keys[v].bundle))
              => ret.err.Failed

\* C10: every entry of the map GetCertificates returns holds a non-empty
\* certificate sequence
C10_NonEmptyChains ==
    (pc = "returned" /\ kind = "certificates") =>
        \A e \in ret.map : e.Value /= <<>>

\* a GetCertificates call on one limit-0 certificate whose GetSecret
\* answered with a valid bundle
SecretFetched ==
    /\ pc = "returned"
    /\ kind = "certificates"
    /\ Len(Objects) = 1
    /\ Objects[1].VersionHistoryLimit = 0
    /\ ~scripts[1].secret.err.Failed
    /\ isValidSecretBundle(scripts[1].secret.bundle)

\* the certificates of the CERTIFICATE blocks of a stream from block i on, in
\* stream order
RECURSIVE StreamCertificates(_, _)
StreamCertificates(blocks, i) ==
    IF i > Len(blocks) THEN <<>>
    ELSE (IF blocks[i].Type = "CERTIFICATE"
          THEN [j \in 1..blocks[i].Certs |-> Certificate(i, j)]
          ELSE <<>>) \o StreamCertificates(blocks, i + 1)

\* the bundle is enabled and a PEM stream of private-key, unknown and
\* decodable CERTIFICATE blocks
EnabledPEMStream(bundle) ==
    /\ bundle.Attributes = "true"
    /\ bundle.ContentType = PEMContentType
    /\ ~bundle.Value.Trailing
    /\ \A i \in DOMAIN bundle.Value.Blocks :
          bundle.Value.Blocks[i].Type = "CERTIFICATE" => bundle.Value.Blocks[i].Certs > 0

\* C11: for a limit-0 certificate and an enabled PEM bundle holding k
\* certificates in CERTIFICATE blocks among private-key and unknown blocks,
\* GetCertificates returns exactly one map entry, keyed (name, bundle version,
\* enabled=true), whose chain is the k certificates in stream order, and
\* exactly k status entries, all enabled and all with that version
C11_ChainInStreamOrder ==
    (SecretFetched /\ EnabledPEMStream(scripts[1].secret.bundle)) =>
        LET bundle == scripts[1].secret.bundle
            name == Objects[1].Name
            version == IDVersion(bundle.ID)
            chain == StreamCertificates(bundle.Value.Blocks, 1)
        IN  /\ ~ret.err.Failed
            /\ ret.map = {[Key |-> KMPMapKey(name, version, TRUE), Value |-> chain]}
            /\ ret.status.entries =
                  [j \in 1..Len(chain) |-> getStatusProperty(name, version, TRUE)]

\* a stream with a private-key block and three certificates in two blocks
C11_Witness ==
    /\ SecretFetched
    /\ EnabledPEMStream(scripts[1].secret.bundle)
    /\ \E i \in DOMAIN scripts[1].secret.bundle.Value.Blocks :
          scripts[1].secret.bundle.Value.Blocks[i].Type = "PRIVATE KEY"
    /\ \E e \in ret.map : Len(e.Value) = 3
    /\ Len(ret.status.entries) = 3

\* content types other than the two supported ones
UnsupportedContentTypes == {"text/plain", "application/json", ""}

\* parsing fails for every unsupported content type and every content
UnsupportedAlwaysFails ==
    \A ct \in UnsupportedContentTypes, c \in SecretContents, enabled \in BOOLEAN :
        getCertsFromSecretBundle(
            SecretBundle(ObjectID("secrets", "a", "v1"), FormatBool(enabled), ct, c[2]),
            "a", enabled) = ParseResult(TRUE, <<>>, <<>>)

\* C12: a bundle whose content type is neither application/x-pkcs12 nor
\* application/x-pem-file fails parsing whatever its content, with no
\* certificates and no status entries returned, and GetCertificates returns
\* an error and no map entry
C12_UnsupportedContentType ==
    /\ UnsupportedAlwaysFails
    /\ (SecretFetched
        /\ scripts[1].secret.bundle.ContentType \notin {PKCS12ContentType, PEMContentType})
       => /\ getCertsFromSecretBundle(scripts[1].secret.bundle, Objects[1].Name,
                 EnabledOf(scripts[1].secret.bundle))
                 = ParseResult(TRUE, <<>>, <<>>)
          /\ ret.err.Failed
          /\ ret.nilResult
          /\ ret.map = {}
          /\ ret.status.entries = <<>>

\* a GetCertificates call met a bundle of an unsupported content type whose
\* value is a well-formed PEM certificate
C12_Witness ==
    /\ SecretFetched
    /\ scripts[1].secret.bundle.ContentType \in UnsupportedContentTypes
    /\ scripts[1].secret.bundle.Value.Blocks /= <<>>
    /\ GetSecretRequest \in Range(requests)
    /\ ret.err.Failed

(***************************************************************************)
(* Claims on the refresher factory registry, under SpecRegistry            *)
(***************************************************************************)
\* C13: Register panics when the factory is nil or the name is already
\* registered, and then leaves the registry unchanged; so each registered
\* name maps to the non-nil factory that was first registered under it
C13_RegisterOnce ==
    /\ registryCall.op = "Register" =>
          /\ registryCall.panicked <=>
                (registryCall.factory = NilFactory
                 \/ Registered(registryBefore, registryCall.name))
          /\ registryCall.panicked => refresherFactories = registryBefore
    /\ refresherFactories = firstRegistered
    /\ \A e \in refresherFactories : e.Factory /= NilFactory
    /\ \A e, f \in refresherFactories : e.Name = f.Name => e = f

\* a second, different factory was given to Register under a taken name
C13_Witness ==
    /\ registryCall.op = "Register"
    /\ registryCall.panicked
    /\ registryCall.factory /= NilFactory
    /\ Registered(registryBefore, registryCall.name)
    /\ FactoryOf(refresherFactories, registryCall.name) /= registryCall.factory

\* the "type" entry of the configuration names a registered factory
NamesRegistered(config, registry) ==
    /\ config.type.kind = "string"
    /\ config.type.str /= ""
    /\ Registered(registry, config.type.str)

\* C14: CreateRefresherFromConfig returns an error and no refresher, without
\* panicking, invoking a factory or changing the registry, when the "type"
\* entry is missing, not a string, empty or unregistered; otherwise it
\* returns what the factory registered under that name returns
C14_CreateFromRegistry ==
    registryCall.op = "CreateRefresherFromConfig" =>
        /\ refresherFactories = registryBefore
        /\ IF NamesRegistered(registryCall.config, registryBefore)
           THEN registryCall.created =
                   FactoryCreate(FactoryOf(registryBefore, registryCall.config.type.str),
                                 registryCall.config)
           ELSE /\ registryCall.created.err /= ""
                /\ registryCall.created.refresher = NilRefresher
                /\ registryCall.created.invoked = <<>>
                /\ ~registryCall.panicked

\* a configuration without a string type met a registry that holds a factory
\* under the empty name
C14_Witness ==
    /\ registryCall.op = "CreateRefresherFromConfig"
    /\ registryCall.config.type.kind /= "string"
    /\ Registered(registryBefore, "")
    /\ registryCall.created.err /= ""

(***************************************************************************)
(* Claims on the reconciler and the status document, under SpecReconcile   *)
(***************************************************************************)
\* C15: Reconcile returns a non-nil error and the empty result in exactly two
\* cases, the absent client (Refresh is never called) and a Refresh that
\* returns an error; otherwise it calls Refresh once and returns the
\* refresher's result unchanged with a nil error
C15_ReconcileResult ==
    cycle = "done" =>
        LET r == lastReconcile.reconciled
            refreshFails == ~lastReconcile.attempt.isSuccess
        IN  /\ r.err.Failed <=> (~lastReconcile.hasClient \/ refreshFails)
            /\ r.err.Failed => r.result = EmptyResult
            /\ ~lastReconcile.hasClient =>
                  r.refreshCalls = 0 /\ r.written.persisted = r.written.object
            /\ lastReconcile.hasClient => r.refreshCalls = 1
            /\ ~r.err.Failed =>
                  r.result = lastReconcile.attempt.result /\ r.err = NilError

\* a Refresh failed while the refresher held a requeueing result
C15_Witness ==
    /\ cycle = "done"
    /\ lastReconcile.hasClient
    /\ ~lastReconcile.attempt.isSuccess
    /\ lastReconcile.attempt.result /= EmptyResult
    /\ lastReconcile.reconciled.err.Failed

\* a status document whose success flag excludes an error
SuccessIsClean(status) ==
    status.isSuccess => status.error = <<>> /\ status.briefError = <<>>

\* C16: a status document with isSuccess=true has empty error and briefError;
\* after a failure write isSuccess=false, error is the full error string and
\* briefError is error when that is at most MaxBriefErrLength long, else its
\* first MaxBriefErrLength characters followed by "...", so never longer than
\* MaxBriefErrLength + 3
C16_BriefError ==
    /\ SuccessIsClean(kmpStatus)
    /\ SuccessIsClean(lastReconcile.reconciled.written.object)
    /\ (cycle = "done" /\ lastReconcile.hasClient /\ ~lastReconcile.attempt.isSuccess) =>
          LET written == lastReconcile.reconciled.written.object
              error == lastReconcile.attempt.errorString
          IN  /\ ~written.isSuccess
              /\ written.error = error
              /\ written.briefError =
                    IF Len(error) <= MaxBriefErrLength THEN error
                    ELSE [i \in 1..(MaxBriefErrLength + 3) |->
                             IF i <= MaxBriefErrLength THEN error[i] ELSE "."]
              /\ Len(written.briefError) <= MaxBriefErrLength + 3

\* a failure with an error of exactly MaxBriefErrLength bytes was written
\* over a success
C16_Witness ==
    /\ cycle = "done"
    /\ lastReconcile.hasClient
    /\ ~lastReconcile.attempt.isSuccess
    /\ Len(lastReconcile.attempt.errorString) = MaxBriefErrLength
    /\ kmpStatus.briefError = lastReconcile.attempt.errorString
    /\ kmpStatus.properties /= NoProperties

\* C17: after any sequence of reconciliation cycles the persisted status
\* document reflects the last completed fetch attempt: its success flag, its
\* error in full and in brief, its time and, for a success that reported a
\* status, its properties
C17_StatusReflectsLastAttempt ==
    (cycle = "done" /\ lastReconcile.hasClient) =>
        LET attempt == lastReconcile.attempt
        IN  /\ kmpStatus.isSuccess = attempt.isSuccess
            /\ kmpStatus.error = attempt.errorString
            /\ Len(kmpStatus.briefError) <= MaxBriefErrLength + 3
            /\ kmpStatus.lastFetchedTime = lastReconcile.operationTime
            /\ (attempt.isSuccess /\ attempt.kmProviderStatus /= NilStatus) =>
                  kmpStatus.properties = Marshal(attempt.kmProviderStatus)

(***************************************************************************)
(* Claims on the controller loop, under SpecLoopFair                       *)
(***************************************************************************)
\* an Update event that left the generation unchanged was not queued
StatusEventFiltered ==
    (loopStep.step = "event" /\ loopStep.event.type = "Update"
     /\ loopStep.event.old = loopStep.event.new) => ~loopStep.enqueued

\* nothing is queued and no event is under way
LoopIdle == ~queue /\ ~statusEvent

\* the last cycle ended with a requeue
CycleRequeued == loopStep.step = "cycle" /\ loopStep.enqueued

\* C18 as stated: a status-only Update event never reaches Reconcile, and
\* after finitely many spec changes the loop runs finitely many cycles and
\* then stays idle
C18_EventuallyIdle == []StatusEventFiltered /\ <>[]LoopIdle

\* C18: a status-only Update event never reaches Reconcile, and after finitely
\* many spec changes the loop stays idle from some cycle on unless cycles
\* keep ending with a requeue, by an error or by the refresher's result
C18_IdleUnlessRequeued == []StatusEventFiltered /\ ([]<>CycleRequeued \/ <>[]LoopIdle)

\* the event of a status write was dropped and left the loop idle
C18_Witness ==
    /\ loopStep.step = "event"
    /\ loopStep.event.type = "Update"
    /\ loopStep.event.old = loopStep.event.new
    /\ ~loopStep.enqueued
    /\ cycle = "done"
    /\ LoopIdle

(***************************************************************************)
(* Claims on Create, under SpecCreate                                      *)
(***************************************************************************)
\* the string holds something besides blanks
NonBlank(str) == \E i \in DOMAIN str : str[i] /= " "

\* the configuration meets every requirement of the claim
ValidConfig ==
    /\ NonBlank(conf.vaultURI)
    /\ NonBlank(conf.tenantID)
    /\ NonBlank(conf.clientID)
    /\ Len(conf.certificates) + Len(conf.keys) > 0
    /\ \A i \in DOMAIN conf.certificates : conf.certificates[i] /= ""
    /\ \A i \in DOMAIN conf.keys : conf.keys[i] /= ""

\* C19: Create returns a provider only if vault URI, tenant ID and client ID
\* are non-empty after trimming, a certificate or key is configured and every
\* one of them has a non-empty name; on a violation it returns a
\* configuration error and no provider, and never calls the vault-client
\* initialisation
C19_CreateValidates ==
    createPc = "created" =>
        /\ ~createRet.nilProvider => ValidConfig
        /\ ~ValidConfig =>
              /\ createRet.nilProvider
              /\ createRet.code = "CONFIG_INVALID"
              /\ createRet.initCalls = 0

\* a configuration whose only fault is a blank client ID was refused
C19_Witness ==
    /\ createPc = "created"
    /\ parsed
    /\ conf.clientID = <<" ">>
    /\ NonBlank(conf.vaultURI)
    /\ NonBlank(conf.tenantID)
    /\ Len(conf.certificates) > 0
    /\ \A i \in DOMAIN conf.certificates : conf.certificates[i] /= ""
    /\ \A i \in DOMAIN conf.keys : conf.keys[i] /= ""
    /\ createRet.code = "CONFIG_INVALID"
    /\ createRet.initCalls = 0

(***************************************************************************)
(* Claims on the listing of versions, under Spec                           *)
(***************************************************************************)
\* the pages of object i whose fetch fails
FailedPages(i) == {k \in DOMAIN scripts[i].pages : scripts[i].pages[k].err.Failed}

\* the requests the call made for object i
RequestsFor(i) == {k \in DOMAIN requests : requests[k].Obj = i}

\* the call came to list the versions of object i and a page fetch failed
PageFetchFailed(i) ==
    /\ pc \in {"returned", "panicked"}
    /\ Objects[i].VersionHistoryLimit > 0
    /\ FailedPages(i) /= {}
    /\ RequestsFor(i) /= {}

\* C20: when a page fetch of an object's version listing fails, no further
\* page is requested for that object, the call returns an error, and no
\* store-delete, map entry or status entry is produced for that object or
\* for any later one: the store differs from the prior one only by the
\* deletes of earlier objects
C20_PageFailureStops ==
    \A i \in DOMAIN Objects :
        PageFetchFailed(i) =>
            LET first == CHOOSE k \in FailedPages(i) : \A j \in FailedPages(i) : k <= j
                listOp == IF kind = "certificates" THEN "ListCertificateVersions"
                          ELSE "ListKeyVersions"
            IN  /\ pc = "returned"
                /\ ret.err.Failed
                /\ Cardinality(RequestsFor(i)) = first
                /\ \A k \in RequestsFor(i) : requests[k].Op = listOp
                /\ \A k \in DOMAIN requests : requests[k].Obj <= i
                /\ \A d \in Range(deletes) : d.Obj < i
                /\ ret.map = {}
                /\ ret.status.entries = <<>>
                /\ store = storeBefore \ {Target(d) : d \in Range(deletes)}

\* the second of three pages failed and the third was never requested
C20_Witness ==
    /\ pc = "returned"
    /\ Len(Objects) = 1
    /\ PageFetchFailed(1)
    /\ Len(scripts[1].pages) = 3
    /\ ~scripts[1].pages[1].err.Failed
    /\ Len(requests) = 2
    /\ ret.err.Failed

(***************************************************************************)
(* Claims on the requests of one fetch call, under SpecFresh               *)
(***************************************************************************)
\* a fetch call has run to its end
CallEnded == pc \in {"returned", "panicked"}

ListOps == {"ListCertificateVersions", "ListKeyVersions"}

\* the requests up to the k-th that the call made for the same object
EarlierFor(k) == {j \in 1..k : requests[j].Obj = requests[k].Obj}

\* the error the vault answered the k-th request of the call with
AnswerOf(k) ==
    LET r == requests[k]
        script == scripts[r.Obj]
        limit0 == Objects[r.Obj].VersionHistoryLimit = 0
    IN  IF r.Op \in ListOps THEN script.pages[Cardinality(EarlierFor(k))].err
        ELSE IF r.Op = "GetCertificate" THEN script.cert.err
        ELSE IF r.Op = "GetSecret"
        THEN (IF limit0 THEN script.secret.err ELSE script.secrets[r.Version].err)
        ELSE (IF limit0 THEN script.key.err ELSE script.keys[r.Version].err)

\* the k-th request is a GetSecret that the call takes for a disabled secret
DisabledSecretAt(k) ==
    /\ requests[k].Op = "GetSecret"
    /\ Objects[requests[k].Obj].VersionHistoryLimit = 0
    /\ isSecretDisabledError(AnswerOf(k))

\* no request but the listing of pages is made twice, and no more pages are
\* listed for an object than the vault holds
NothingRequestedTwice ==
    /\ \A k, l \in DOMAIN requests :
          (k < l /\ requests[k] = requests[l]) => requests[k].Op \in ListOps
    /\ \A i \in DOMAIN Objects :
          Cardinality({k \in DOMAIN requests :
                          requests[k].Obj = i /\ requests[k].Op \in ListOps})
             <= Len(scripts[i].pages)

\* a failed request other than the disabled secret is the last request of
\* the call, and the call returns an error
FailuresReturned ==
    \A k \in DOMAIN requests :
        (AnswerOf(k).Failed /\ ~DisabledSecretAt(k)) =>
            k = Len(requests) /\ pc = "returned" /\ ret.err.Failed

C22_Idempotent ==
    pc = "refetched" =>
        /\ ret = firstRet
        /\ store = firstStore
        /\ store = storeBefore

\* a second call returned material and applied again the delete of an entry
\* that earlier cycles may store and that the first call had left absent
C22_Witness ==
    /\ pc = "refetched"
    /\ ~ret.err.Failed
    /\ ret.map /= {}
    /\ ret.status.entries /= <<>>
    /\ deletes /= <<>>
    /\ \E d \in Range(deletes) : Target(d) \in StoreEntries
    /\ \A d \in Range(deletes) : Target(d) \notin firstStore

(***************************************************************************)
(* Claims on cycles side by side, under SpecInterleave                     *)
(***************************************************************************)
\* the store-deletes of cycle c that have reached the store
Applied(c) == SubSeq(cycles[c].deletes, 1, Len(cycles[c].deletes) - Len(pending[c]))

\* the entries of the store under a provider identity
Under(S, resource) == {e \in S : e.Resource = resource}

\* the store after the deletes, one after the other
RECURSIVE ApplyDeletes(_, _)
ApplyDeletes(S, ds) ==
    IF ds = <<>> THEN S ELSE ApplyDeletes(S \ {Target(Head(ds))}, Tail(ds))

\* C23: for two cycles of different provider identities interleaved in any
\* order, every store-delete is keyed by the identity of its own cycle and
\* its own MapKey and leaves the entries of the other identity unchanged,
\* and the final store is the one of the two cycles run one after the other
C23_CyclesIndependent ==
    cycles /= <<>> =>
        /\ \A c \in 1..2 : \A d \in Range(cycles[c].deletes) :
              d.Resource = cycles[c].resource
        /\ \A c \in 1..2 :
              Under(store, cycles[c].resource) =
                 Under(storeBefore, cycles[c].resource)
                    \ {Target(d) : d \in Range(Applied(c))}
        /\ (pending[1] = <<>> /\ pending[2] = <<>>) =>
              store = ApplyDeletes(ApplyDeletes(storeBefore, cycles[1].deletes),
                                   cycles[2].deletes)

\* both cycles are through; a delete of the second removed an entry before a
\* delete of the first removed another
C23_Witness ==
    /\ cycles /= <<>>
    /\ pending[1] = <<>>
    /\ pending[2] = <<>>
    /\ Len(deletes) >= 2
    /\ deletes[1].Resource = "r2"
    /\ Target(deletes[1]) \in storeBefore
    /\ \E k \in 2..Len(deletes) :
          deletes[k].Resource = "r1" /\ Target(deletes[k]) \in storeBefore

(***************************************************************************)
(* Claims on the order of processing, under SpecFresh                          *)
(***************************************************************************)
\* the statuses recorded for the objects from i on, each processed on its own
RECURSIVE StatusFrom(_, _)
StatusFrom(alone, i) ==
    IF i > Len(alone) THEN <<>> ELSE alone[i].status \o StatusFrom(alone, i + 1)

\* the creation times the listing met by object i gives version v
CreatedIn(i, v) ==
    {e.Created : e \in {h \in Range(fetchVersionHistory(scripts[i].pages).versionHistory) :
                           h.Version = v}}

\* version v comes no later than version w in the sorted listing of object i
OldestFirst(i, v, w) == \E c \in CreatedIn(i, v) : \E d \in CreatedIn(i, w) : c <= d

HistoryPath(i) == Objects[i].VersionHistoryLimit /= 0

\* requests and store-deletes come in configuration order
InConfigurationOrder ==
    /\ \A k, l \in DOMAIN requests : k < l => requests[k].Obj <= requests[l].Obj
    /\ \A k, l \in DOMAIN deletes : k < l => deletes[k].Obj <= deletes[l].Obj

\* in the version-history path the fetches, the store-deletes and the status
\* entries of one object come oldest version first
VersionsOldestFirst ==
    /\ \A k, l \in DOMAIN requests :
          (/\ k < l
           /\ requests[k].Obj = requests[l].Obj
           /\ HistoryPath(requests[k].Obj)
           /\ requests[k].Op \notin ListOps
           /\ requests[l].Op \notin ListOps)
             => OldestFirst(requests[k].Obj, requests[k].Version, requests[l].Version)
    /\ \A k, l \in DOMAIN deletes :
          (k < l /\ deletes[k].Obj = deletes[l].Obj /\ HistoryPath(deletes[k].Obj))
             => OldestFirst(deletes[k].Obj, deletes[k].Key.Version, deletes[l].Key.Version)
    /\ \A i \in DOMAIN Objects :
          HistoryPath(i) =>
             LET status == Alone(i).status
             IN  \A k, l \in DOMAIN status :
                    k < l => OldestFirst(i, status[k].version, status[l].version)

\* C24: within one fetch call the vault requests, the store-deletes and the
\* status entries come in configuration order; in the version-history path
\* the trimmed versions of an object are processed oldest first; the status
\* document returned lists its entries in that order
C24_ProcessingOrder ==
    CallEnded =>
        /\ InConfigurationOrder
        /\ VersionsOldestFirst
        /\ Succeeded => ret.status.entries = StatusFrom(AloneAll, 1)

\* a call over two objects that returns a status entry for each and
\* deletes for each; or a call that processes two versions of a history,
\* one deleted and one fetched, the listing handing out the newest first
C24_Witness ==
    /\ Succeeded
    /\ \/ /\ Len(Objects) = 2
          /\ \A i \in 1..2 : AloneAll[i].status /= <<>>
          /\ {r.Obj : r \in Range(requests)} = {1, 2}
          /\ Objects[1].Name /= Objects[2].Name
          /\ Len(ret.status.entries) = 2
       \/ /\ Len(Objects) = 1
          /\ HistoryPath(1)
          /\ Len(ret.status.entries) = 2
          /\ Len(deletes) = 1
          /\ \E k \in DOMAIN requests : requests[k].Op \notin ListOps
          /\ LET first == scripts[1].pages[1].Value
             IN  Len(first) = 2 /\ first[1].Created > first[2].Created

(***************************************************************************)
(* Claims on the version-history path, under SpecFresh                     *)
(***************************************************************************)
\* the history object i is left with after trimming; empty when the listing
\* fails
Trimmed(i) ==
    LET history == fetchVersionHistory(scripts[i].pages)
    IN  IF history.err.Failed THEN <<>>
        ELSE trimVersionHistory(history.versionHistory, Objects[i].VersionHistoryLimit,
                                Objects[i].Version).value

\* the call gets to object i: no object before it fails
ObjectReached(i) ==
    \A j \in 1..(i - 1) : ~AloneAll[j].err.Failed /\ ~AloneAll[j].panic

\* the vault's answer to the fetch of version v of object i
AnswerTo(i, v) ==
    IF kind = "certificates" THEN scripts[i].secrets[v] ELSE scripts[i].keys[v]

ValidContent(i, v) ==
    IF kind = "certificates" THEN isValidSecretBundle(AnswerTo(i, v).bundle)
    ELSE isValidKeyBundle(AnswerTo(i, v).bundle)

ContentParses(i, v) ==
    IF kind = "certificates"
    THEN ~getCertsFromSecretBundle(AnswerTo(i, v).bundle, Objects[i].Name, TRUE).Failed
    ELSE ~getKeyFromKeyBundle(AnswerTo(i, v).bundle).Failed

\* the loop over the history t of object i returns at its j-th entry
StopsAt(i, t, j) ==
    /\ t[j].Enabled
    /\ \/ AnswerTo(i, t[j].Version).err.Failed
       \/ ValidContent(i, t[j].Version) /\ ~ContentParses(i, t[j].Version)

\* the loop over the history t of object i gets to its j-th entry
EntryReached(i, t, j) == (\A k \in 1..(j - 1) : ~StopsAt(i, t, k)) /\ ObjectReached(i)

ContentFetches(i, v) ==
    {k \in DOMAIN requests :
        requests[k].Obj = i /\ requests[k].Op \notin ListOps /\ requests[k].Version = v}

DeletesOf(i, v) ==
    {k \in DOMAIN deletes : deletes[k].Obj = i /\ deletes[k].Key.Version = v}

StatusOf(status, v) == {k \in DOMAIN status : status[k].version = v}

\* what version v of object i, disabled in the listing, leaves; alone is the
\* object processed on its own
DisabledEntry(i, alone, v) ==
    /\ Cardinality(DeletesOf(i, v)) = 1
    /\ \A k \in DeletesOf(i, v) :
          /\ deletes[k].Key.Name = Objects[i].Name
          /\ deletes[k].Resource = provider.resource
    /\ Cardinality(StatusOf(alone.status, v)) = 1
    /\ \A k \in StatusOf(alone.status, v) :
          alone.status[k] = getStatusProperty(Objects[i].Name, v, FALSE)
    /\ ContentFetches(i, v) = {}

\* what version v of object i, enabled in the listing, leaves
EnabledEntry(i, alone, v) ==
    LET key == KMPMapKey(Objects[i].Name, v, TRUE)
        entries == {e \in alone.map : e.Key.Name = key.Name /\ e.Key.Version = v}
        status == StatusOf(alone.status, v)
    IN  /\ Cardinality(ContentFetches(i, v)) = 1
        /\ DeletesOf(i, v) = {}
        /\ \A k \in status : alone.status[k].enabled = FormatBool(TRUE)
        /\ IF ~AnswerTo(i, v).err.Failed /\ ValidContent(i, v) /\ ContentParses(i, v)
           THEN /\ Cardinality(entries) = 1
                /\ \A e \in entries : e.Key = key
                /\ Succeeded => key \in MapKeys(ret.map)
                /\ kind = "keys" => Cardinality(status) = 1
           ELSE entries = {} /\ status = {}

InvalidBundle(i) ==
    /\ ~HistoryPath(i)
    /\ IF kind = "keys"
       THEN ~scripts[i].key.err.Failed /\ ~isValidKeyBundle(scripts[i].key.bundle)
       ELSE \/ /\ ~scripts[i].secret.err.Failed
               /\ ~isValidSecretBundle(scripts[i].secret.bundle)
            \/ /\ scripts[i].secret.err.Failed
               /\ isSecretDisabledError(scripts[i].secret.err)
               /\ ~scripts[i].cert.err.Failed
               /\ ~isValidCertificateBundle(scripts[i].cert.bundle)

\* object i meets a soft warning in the version-history path: the listing
\* succeeds and nothing is left after trimming
EmptyHistory(i) ==
    /\ HistoryPath(i)
    /\ ~fetchVersionHistory(scripts[i].pages).err.Failed
    /\ Trimmed(i) = <<>>

\* the j-th entry of the history t of object i is enabled and the vault
\* answers its fetch with a bundle that lacks a mandatory field
InvalidVersion(i, t, j) ==
    /\ t[j].Enabled
    /\ ~AnswerTo(i, t[j].Version).err.Failed
    /\ ~ValidContent(i, t[j].Version)

\* the call goes on to the object after object i
NextObjectProcessed(i) ==
    i < Len(Objects) => \E k \in DOMAIN requests : requests[k].Obj = i + 1

\* object i leaves no trace and does not stop the call
ObjectSkipped(i) ==
    LET alone == Alone(i)
    IN  /\ ~alone.err.Failed
        /\ ~alone.panic
        /\ alone.map = {}
        /\ alone.status = <<>>
        /\ \A k \in DOMAIN deletes : deletes[k].Obj /= i
        /\ pc = "returned"
        /\ ret.err.Failed => FirstFailing > i
        /\ (\A j \in DOMAIN Objects : ~AloneAll[j].err.Failed) => Succeeded
        /\ NextObjectProcessed(i)

\* the j-th entry of the history t of object i leaves no trace and the loop
\* goes on to the entry after it
VersionSkipped(i, t, j) ==
    LET alone == Alone(i)
        v == t[j].Version
    IN  /\ {e \in alone.map : e.Key.Version = v} = {}
        /\ StatusOf(alone.status, v) = {}
        /\ DeletesOf(i, v) = {}
        /\ ~StopsAt(i, t, j)
        /\ j < Len(t) =>
              IF t[j + 1].Enabled THEN ContentFetches(i, t[j + 1].Version) /= {}
              ELSE DeletesOf(i, t[j + 1].Version) /= {}

PinnedAbsent(i) ==
    /\ Objects[i].VersionHistoryLimit > 0
    /\ Objects[i].Version /= ""
    /\ ~fetchVersionHistory(scripts[i].pages).err.Failed
    /\ \A h \in Range(fetchVersionHistory(scripts[i].pages).versionHistory) :
          h.Version /= Objects[i].Version

\* C27: when the pinned version is not among the listed versions and the
\* limit is positive, trimming leaves an empty history and the object is
\* skipped: no error, no content fetch, no map entry, no status entry and no
\* store-delete, and the call goes on with the next object
C27_PinnedVersionAbsent ==
    CallEnded =>
        \A i \in DOMAIN Objects :
            (PinnedAbsent(i) /\ ObjectReached(i)) =>
               /\ Trimmed(i) = <<>>
               /\ ObjectSkipped(i)
               /\ \A k \in DOMAIN requests :
                     requests[k].Obj = i => requests[k].Op \in ListOps

\* the first of two objects pins a version the vault does not list among
\* the versions it holds; the second is fetched and stored
C27_Witness ==
    /\ Succeeded
    /\ Len(Objects) = 2
    /\ PinnedAbsent(1)
    /\ fetchVersionHistory(scripts[1].pages).versionHistory /= <<>>
    /\ \E k \in DOMAIN requests : requests[k].Obj = 1
    /\ \E k \in DOMAIN requests : requests[k].Obj = 2 /\ requests[k].Op \notin ListOps
    /\ ret.map /= {}

(***************************************************************************)
(* Claim on the slice bounds of the trim, under SpecTrim                   *)
(***************************************************************************)
\* C28: trimVersionHistory never slices out of range: for every history,
\* every pinned version, listed or not, and every limit other than 0,
\* negative ones included, the bounds satisfy 0 <= start <= end <= len
C28_SliceInRange ==
    tPc = "trimmed" => ~tTrimmed.panic

(***************************************************************************)
(* Claim on the enabled flag in the version-history path, under SpecFresh  *)
(***************************************************************************)
\* the flags the trimmed history t gives version v
ListedFlags(t, v) == {t[j].Enabled : j \in {k \in DOMAIN t : t[k].Version = v}}

\* the flag of the fetched bundle of version v of object i
FetchedFlag(i, v) == EnabledOf(AnswerTo(i, v).bundle)

\* C29: in the version-history path the enabled flag of every MapKey and of
\* every status entry is the flag the listing reports for the version, never
\* the flag of the fetched bundle: every key of the map built on that path
\* has enabled = true, also when the fetched bundle says disabled
C29_ListedFlag ==
    CallEnded =>
        /\ \A i \in DOMAIN Objects :
              HistoryPath(i) =>
                 LET t == Trimmed(i)
                     alone == Alone(i)
                 IN  /\ \A e \in alone.map :
                           e.Key.Enabled /\ ListedFlags(t, e.Key.Version) = {TRUE}
                     /\ \A k \in DOMAIN alone.status :
                           ListedFlags(t, alone.status[k].version)
                              = {alone.status[k].enabled = FormatBool(TRUE)}
        /\ (Succeeded /\ \A i \in DOMAIN Objects : HistoryPath(i)) =>
              \A key \in MapKeys(ret.map) : key.Enabled

\* a call in the version-history path that stores a version whose fetched
\* bundle says disabled, under enabled = true
C29_Witness ==
    /\ Succeeded
    /\ Len(Objects) = 1
    /\ HistoryPath(1)
    /\ \E key \in MapKeys(ret.map) :
          /\ key.Enabled
          /\ ~FetchedFlag(1, key.Version)
          /\ \E k \in DOMAIN ret.status.entries :
                /\ ret.status.entries[k].version = key.Version
                /\ ret.status.entries[k].enabled = FormatBool(TRUE)

(***************************************************************************)
(* Claim on the frame of the status write, under SpecReconcile             *)
(***************************************************************************)
\* the step is a Reconcile whose status write is a failure write, or a
\* success write with a nil provider status
WriteWithoutProperties ==
    /\ cycle' = "done"
    /\ lastReconcile'.hasClient
    /\ \/ ~lastReconcile'.attempt.isSuccess
       \/ lastReconcile'.attempt.kmProviderStatus = NilStatus

\* C30: a failure status write changes only isSuccess, error, briefError and
\* lastFetchedTime and leaves the persisted properties as they were; a success
\* status write with a nil provider status leaves the properties as they
\* were too
C30_PropertiesKept ==
    [][WriteWithoutProperties =>
          /\ lastReconcile'.reconciled.written.object.properties = kmpStatus.properties
          /\ kmpStatus'.properties = kmpStatus.properties]_vars

\* a failure was written over the status of a success that had reported
\* properties, and they are still there
C30_Witness ==
    /\ cycle = "done"
    /\ lastReconcile.hasClient
    /\ ~lastReconcile.attempt.isSuccess
    /\ ~lastReconcile.attempt.statusErr
    /\ lastReconcile.attempt.errorString /= <<>>
    /\ ~kmpStatus.isSuccess
    /\ kmpStatus.error = lastReconcile.attempt.errorString
    /\ kmpStatus.lastFetchedTime = lastReconcile.operationTime
    /\ kmpStatus.properties \in {Marshal(st) : st \in KMProviderStatuses \ {NilStatus}}

====
